---- MODULE Spec2Model ----
(***************************************************************************)
(* The server tick loop of voxel-rs (server/src/server.rs): chunk          *)
(* streaming, generation, lighting dispatch and garbage collection, with   *)
(* the two background workers and the players' connections.                *)
(*                                                                         *)
(* Chunk contents are abstracted to revisions: the chunk the generator     *)
(* makes for a position is revision 0 (generation is deterministic, so it  *)
(* is the same chunk every time), and an edit of revision n is revision    *)
(* n + 1. Player physics is abstracted to the chunk that holds the camera. *)
(***************************************************************************)
EXTENDS Integers, Sequences, FiniteSets, TLC

\* ------------------------------------------------------------------ bounds
\* Chunk columns 0..MaxX along the X axis make up the modelled world.
MaxX == 1
\* Player ids 1..MaxPlayers.
MaxPlayers == 2
\* Each side of a render distance is in 0..MaxDist.
MaxDist == 1
\* The number of external happenings (connects, disconnects, render
\* distance changes, block edits, chunk border crossings) in a behaviour.
MaxEvents == 4

\* ------------------------------------------------------------------- types
PlayerIds == 1..MaxPlayers

ChunkPos(x, y, z) == [px |-> x, py |-> y, pz |-> z]

\* The chunk that holds the camera of PhysicsPlayer::default(): the AABB is
\* centred at (1.46, 58.6, 1.85) with half height 0.9, the camera is 1.6
\* above its floor, i.e. at block (1, 59, 1), in chunk (0, 1, 0).
SpawnChunk == ChunkPos(0, 1, 0)

\* The chunk positions of the modelled world: a row of chunks through the
\* spawn chunk.
Positions == {ChunkPos(x, SpawnChunk.py, SpawnChunk.pz) : x \in 0..MaxX}

RenderDistance(xmax, xmin, ymax, ymin, zmax, zmin) ==
    [x_max |-> xmax, x_min |-> xmin, y_max |-> ymax, y_min |-> ymin,
     z_max |-> zmax, z_min |-> zmin]

\* RenderDistance::default()
DefaultRenderDistance == RenderDistance(0, 0, 0, 0, 0, 0)

\* The render distances a client may ask for.
RenderDistances ==
    {RenderDistance(a, b, 0, 0, 0, 0) : a \in 0..MaxDist, b \in 0..MaxDist}

\* block_to_place of a PlayerData that no SelectBlock has changed.
DefaultBlockToPlace == 1

\* PlayerData::default()
DefaultPlayerData ==
    [loaded_chunks |-> {}, render_distance |-> DefaultRenderDistance,
     block_to_place |-> DefaultBlockToPlace]

Abs(n) == IF n < 0 THEN -n ELSE n

\* RenderDistance::is_chunk_visible
is_chunk_visible(rd, player_chunk, chunk_pos) ==
    /\ chunk_pos.px - player_chunk.px <= rd.x_max
    /\ chunk_pos.px - player_chunk.px >= -rd.x_min
    /\ chunk_pos.py - player_chunk.py <= rd.y_max
    /\ chunk_pos.py - player_chunk.py >= -rd.y_min
    /\ chunk_pos.pz - player_chunk.pz <= rd.z_max
    /\ chunk_pos.pz - player_chunk.pz >= -rd.z_min

\* RenderDistance::iterate_around_player, as the set of positions it yields
\* (within the modelled world).
iterate_around_player(rd, player_chunk) ==
    {p \in Positions :
        /\ p.px - player_chunk.px \in -rd.x_min..rd.x_max
        /\ p.py - player_chunk.py \in -rd.y_min..rd.y_max
        /\ p.pz - player_chunk.pz \in -rd.z_min..rd.z_max}

\* Lexicographic order on chunk positions: the order in which the box is
\* walked.
PosLess(p, q) ==
    \/ p.px < q.px
    \/ p.px = q.px /\ p.py < q.py
    \/ p.px = q.px /\ p.py = q.py /\ p.pz < q.pz

RECURSIVE Ordered(_)
Ordered(S) ==
    IF S = {} THEN <<>>
    ELSE LET m == CHOOSE p \in S : \A q \in S \ {p} : PosLess(p, q)
         IN <<m>> \o Ordered(S \ {m})

\* ToClient messages.
GameDataMsg == [type |-> "GameData"]
CurrentIdMsg(id) == [type |-> "CurrentId", id |-> id]
UpdatePhysicsMsg == [type |-> "UpdatePhysics"]
ChunkMsg(p, c) == [type |-> "Chunk", pos |-> p, chunk |-> c]
LightChunkMsg(p) == [type |-> "LightChunk", pos |-> p]

\* ------------------------------------------------------------------- state
VARIABLES
    world_blocks,           \* the blocks of the voxels examined: BlockPos -> id
    pick,                   \* the last pick of a block edit and what it did
    aabb,                   \* the box of the PhysicsPlayer examined
    light_levels,           \* the light stored for each voxel of world.light
    velocity,               \* the velocity of the PhysicsPlayer examined
    yaw_pitch,              \* the YawPitch of the client examined
    call,                   \* the last call examined: arguments and result
    renderer,               \* the WorldRenderer of the client examined
    highest_opaque_block,   \* columns whose world.highest_opaque_block holds a Y
    pc,                     \* the step of Server::tick that runs next
    players,                \* Server.players: PlayerId -> PlayerData
    physics_players,        \* physics_simulation: PlayerId -> camera chunk
    chunks,                 \* world.chunks: ChunkPos -> revision
    light,                  \* key set of world.light
    generating_chunks,      \* Server.generating_chunks
    updated_chunks,         \* Server.updated_chunks
    chunk_lighting_updates, \* Server.chunk_lighting_updates
    updated_light_chunks,   \* key set of tick()'s updated_light_chunks
    worldgen_worker,        \* [queue, current, out] of the generation worker
    light_worker,           \* [queue, current, out] of the lighting worker
    sent,                   \* PlayerId -> messages sent to it in this tick
    first_sent,             \* PlayerId -> first messages of its connection
    handshakes,             \* PlayerId -> GameData/CurrentId counts
    last_chunk,             \* PlayerId -> ChunkPos -> last Chunk sent of the
                            \* chunk now in the world
    held,                   \* PlayerId -> chunks sent and in the box since
    discarded,              \* generation results this tick's drain dropped
    lost,                   \* generating positions whose task the worker lost
    events,                 \* external happenings so far
    edits_received          \* chunks an edit message of this tick is about

\* The state examined at the level of voxels, which the tick loop, keeping
\* chunks as whole snapshots, leaves alone.
voxel_vars == <<world_blocks, pick, aabb, light_levels, velocity, yaw_pitch,
               call, renderer>>

vars == <<pc, players, physics_players, chunks, light, generating_chunks,
          updated_chunks, chunk_lighting_updates, updated_light_chunks,
          worldgen_worker, light_worker, sent, first_sent,
          handshakes, last_chunk, held, discarded, lost, events,
          edits_received,
          highest_opaque_block,
          world_blocks, pick, aabb, light_levels, velocity, yaw_pitch, call,
          renderer>>

\* How many messages of a connection first_sent keeps.
FirstLen == 3

\* Worker::new: nothing queued, nothing in progress, nothing produced.
\* queue holds the keys of the pending tasks, current the key of the task the
\* worker thread is computing (at most one), out the results that
\* get_processed has not yet returned.
NewWorker == [queue |-> {}, current |-> {}, out |-> {}]

\* No voxel is examined and no pick was made.
NoVoxels ==
    /\ world_blocks = <<>>
    /\ pick = {}
    /\ aabb = {}
    /\ light_levels = <<>>
    /\ velocity = {}
    /\ yaw_pitch = {}
    /\ call = {}
    /\ renderer = {}

\* Server::new
Init ==
    /\ pc = "start"
    /\ players = <<>>
    /\ physics_players = <<>>
    /\ chunks = <<>>
    /\ light = {}
    /\ generating_chunks = {}
    /\ updated_chunks = {}
    /\ chunk_lighting_updates = {}
    /\ updated_light_chunks = {}
    /\ worldgen_worker = NewWorker
    /\ light_worker = NewWorker
    /\ sent = [i \in PlayerIds |-> <<>>]
    /\ first_sent = [i \in PlayerIds |-> <<>>]
    /\ handshakes = [i \in PlayerIds |-> [GameData |-> 0, CurrentId |-> 0]]
    /\ last_chunk = [i \in PlayerIds |-> <<>>]
    /\ held = [i \in PlayerIds |-> {}]
    /\ discarded = {}
    /\ lost = {}
    /\ events = 0
    /\ edits_received = {}
    /\ highest_opaque_block = {}
    /\ NoVoxels

\* ----------------------------------------------------------------- helpers
Put(f, k, v) == [x \in DOMAIN f \cup {k} |-> IF x = k THEN v ELSE f[x]]
Restrict(f, S) == [x \in DOMAIN f \cap S |-> f[x]]
Min(a, b) == IF a < b THEN a ELSE b

RECURSIVE Count(_, _)
Count(seq, type) ==
    IF seq = <<>> THEN 0
    ELSE (IF Head(seq).type = type THEN 1 ELSE 0) + Count(Tail(seq), type)

Types(seq) == [k \in 1..Len(seq) |-> seq[k].type]

\* ServerIO::send for a batch: msgs[i] is what this step sends to player i,
\* in order. The connections of the players in fresh have just been opened:
\* what is recorded about their earlier connection is forgotten.
send(msgs, fresh) ==
    /\ sent' = [i \in PlayerIds |->
                  (IF i \in fresh THEN <<>> ELSE sent[i]) \o msgs[i]]
    /\ first_sent' =
         [i \in PlayerIds |->
            LET old == IF i \in fresh THEN <<>> ELSE first_sent[i]
            IN SubSeq(old \o Types(msgs[i]), 1,
                      Min(FirstLen, Len(old) + Len(msgs[i])))]
    /\ handshakes' =
         [i \in PlayerIds |->
            LET old == IF i \in fresh THEN [GameData |-> 0, CurrentId |-> 0]
                       ELSE handshakes[i]
            IN [GameData |-> old.GameData + Count(msgs[i], "GameData"),
                CurrentId |-> old.CurrentId + Count(msgs[i], "CurrentId")]]

NoMessages == [i \in PlayerIds |-> <<>>]

\* save_chunk that asks for the light of the 3x3x3 neighbourhood whatever
\* update_highest_opaque_block returns.
lighting_targets_near(keys, p, changed) ==
    {c \in keys : /\ Abs(c.py - p.py) <= 1
                  /\ Abs(c.px - p.px) <= 1
                  /\ Abs(c.pz - p.pz) <= 1}

\* The chunks whose light save_chunk(chunk at p) asks to recompute, among the
\* keys of world.chunks (p's chunk already inserted). changed is the result
\* of World::update_highest_opaque_block(p).
lighting_targets(keys, p, changed) ==
    IF changed
    THEN {c \in keys : /\ c.py <= p.py
                       /\ Abs(c.px - p.px) <= 1
                       /\ Abs(c.pz - p.pz) <= 1}
    ELSE {c \in keys : /\ Abs(c.py - p.py) <= 1
                       /\ Abs(c.px - p.px) <= 1
                       /\ Abs(c.pz - p.pz) <= 1}

\* The column of a chunk: ChunkPosXZ::from(ChunkPos).
ChunkPosXZ(p) == [px |-> p.px, pz |-> p.pz]

\* World::update_highest_opaque_block for the chunks saved at the positions
\* saved: the summary of each column is computed again from its chunks. The
\* chunks of the modelled row are at ground level and hold opaque blocks
\* whatever is broken or placed, so the summary of the column of a saved
\* chunk holds a Y from then on.
update_highest_opaque_block(summaries, saved) ==
    summaries \cup {ChunkPosXZ(p) : p \in saved}

\* Server::save_chunk for each chunk of new, a function from the positions
\* saved to the snapshots stored there; changed[p] is what
\* update_highest_opaque_block(p) returns, which depends on the blocks: true
\* when the column had no Y before.
save_chunk(new, changed) ==
    /\ \A p \in DOMAIN new :
         ChunkPosXZ(p) \notin highest_opaque_block => changed[p]
    /\ highest_opaque_block' =
         update_highest_opaque_block(highest_opaque_block, DOMAIN new)
    /\ updated_chunks' = updated_chunks \cup DOMAIN new
    /\ chunks' = [p \in DOMAIN chunks \cup DOMAIN new |->
                    IF p \in DOMAIN new THEN new[p] ELSE chunks[p]]
    /\ chunk_lighting_updates' =
         chunk_lighting_updates \cup
         UNION {lighting_targets(DOMAIN chunks \cup DOMAIN new, p, changed[p]) :
                  p \in DOMAIN new}

\* self.updated_chunks = HashSet::new() at the top of tick(); the messages of
\* the previous tick are with the transport by now.
TickStart ==
    /\ pc = "start"
    /\ pc' = "events"
    /\ updated_chunks' = {}
    /\ updated_light_chunks' = {}
    /\ sent' = NoMessages
    /\ discarded' = {}
    /\ edits_received' = {}
    /\ UNCHANGED <<players, physics_players, chunks, light, generating_chunks,
                   chunk_lighting_updates, worldgen_worker, light_worker,
                   first_sent, handshakes, last_chunk, held, lost,
                   events,
                   highest_opaque_block,
                   voxel_vars>>

\* connect_messages with the two sends in the other order.
connect_messages_id_first(id) == <<CurrentIdMsg(id), GameDataMsg>>

\* What the server sends to a client that connects.
connect_messages(id) == <<GameDataMsg, CurrentIdMsg(id)>>

\* ServerEvent::ClientConnected(id). The transport reports a connection once,
\* so id is not connected.
ClientConnected(id) ==
    /\ pc = "events"
    /\ id \notin DOMAIN players
    /\ events < MaxEvents
    /\ events' = events + 1
    /\ physics_players' = Put(physics_players, id, SpawnChunk)
    /\ players' = Put(players, id, DefaultPlayerData)
    /\ send([i \in PlayerIds |-> IF i = id THEN connect_messages(id) ELSE <<>>],
            {id})
    /\ last_chunk' = [last_chunk EXCEPT ![id] = <<>>]
    /\ held' = [held EXCEPT ![id] = {}]
    /\ UNCHANGED <<pc, chunks, light, generating_chunks, updated_chunks,
                   chunk_lighting_updates, updated_light_chunks,
                   worldgen_worker, light_worker, discarded, lost,
                   edits_received,
                   highest_opaque_block,
                   voxel_vars>>

\* remove_player that removes nothing.
keep_player(map, id) == map

\* physics_simulation.remove(id) and players.remove(&id).
remove_player(map, id) == Restrict(map, DOMAIN map \ {id})

\* ServerEvent::ClientDisconnected(id). The connection is over: what was
\* recorded about it is cleared.
ClientDisconnected(id) ==
    /\ pc = "events"
    /\ id \in DOMAIN players
    /\ events < MaxEvents
    /\ events' = events + 1
    /\ physics_players' = remove_player(physics_players, id)
    /\ players' = remove_player(players, id)
    /\ send(NoMessages, {id})
    /\ last_chunk' = [last_chunk EXCEPT ![id] = <<>>]
    /\ held' = [held EXCEPT ![id] = {}]
    /\ UNCHANGED <<pc, chunks, light, generating_chunks, updated_chunks,
                   chunk_lighting_updates, updated_light_chunks,
                   worldgen_worker, light_worker, discarded, lost,
                   edits_received,
                   highest_opaque_block,
                   voxel_vars>>

\* ToServer::UpdateInput(input): the input is kept for the physics step, whose
\* outcome StepSimulation chooses.
UpdateInput(id) ==
    /\ pc = "events"
    /\ id \in DOMAIN players
    /\ UNCHANGED vars

\* ToServer::SetRenderDistance(render_distance), with a distance other than
\* the player's current one.
SetRenderDistance(id, render_distance) ==
    /\ pc = "events"
    /\ id \in DOMAIN players
    /\ render_distance # players[id].render_distance
    /\ events < MaxEvents
    /\ events' = events + 1
    /\ players' = [players EXCEPT ![id].render_distance = render_distance]
    /\ held' = [held EXCEPT ![id] =
                  held[id] \cap
                  iterate_around_player(render_distance, physics_players[id])]
    /\ UNCHANGED <<pc, physics_players, chunks, light, generating_chunks,
                   updated_chunks, chunk_lighting_updates, updated_light_chunks,
                   worldgen_worker, light_worker, sent, first_sent,
                   handshakes, last_chunk, discarded, lost,
                   edits_received,
                   highest_opaque_block,
                   voxel_vars>>

\* Option<ChunkPos>: the chunk of the voxel an edit is about to change, None
\* when the ray-pick hits nothing or that chunk is not loaded.
None == {}
Some(c) == {c}
Targets == {None} \cup {Some(c) : c \in DOMAIN chunks}

\* edit_chunk that leaves the world as it is.
edit_chunk_unsaved(target) ==
    /\ events < MaxEvents
    /\ events' = events + 1
    /\ UNCHANGED <<pc, players, physics_players, chunks, light,
                   generating_chunks, updated_chunks, chunk_lighting_updates,
                   updated_light_chunks, worldgen_worker, light_worker, sent,
                   first_sent, handshakes, last_chunk, held, discarded, lost,
                   highest_opaque_block,
                   voxel_vars>>

\* The edit of a BreakBlock or PlaceBlock whose target voxel is in chunk
\* target: a clone of that chunk with the voxel changed replaces the
\* world's.
edit_chunk(target) ==
    \E changed \in BOOLEAN :
        /\ events < MaxEvents
        /\ events' = events + 1
        /\ save_chunk([p \in {target} |-> chunks[target] + 1],
                      [p \in {target} |-> changed])
        /\ UNCHANGED <<pc, players, physics_players, light, generating_chunks,
                       updated_light_chunks, worldgen_worker, light_worker,
                       sent, first_sent, handshakes, last_chunk, held,
                       discarded, lost,
                       voxel_vars>>

\* ToServer::BreakBlock(player_pos, yaw, pitch): selected_block hits a block
\* of a loaded chunk, which World::set_block replaces by air, or nothing.
BreakBlock(id, target) ==
    /\ pc = "events"
    /\ id \in DOMAIN players
    /\ IF target = None THEN UNCHANGED vars
       ELSE \E c \in target :
              /\ edit_chunk(c)
              /\ edits_received' = edits_received \cup {c}

\* ToServer::SelectBlock(player_pos, yaw, pitch): the player's block_to_place
\* becomes the block pointed at. Which block an edit places changes no key of
\* the world and no set of the server: at the level of chunks the id is left
\* as it is, and SelectBlockAt follows it at the level of voxels.
SelectBlock(id) ==
    /\ pc = "events"
    /\ id \in DOMAIN players
    /\ UNCHANGED vars

\* ToServer::PlaceBlock(player_pos, yaw, pitch): get_pointed_at hits a block;
\* the voxel next to it is set when its chunk is loaded.
PlaceBlock(id, target) ==
    /\ pc = "events"
    /\ id \in DOMAIN players
    /\ IF target = None THEN UNCHANGED vars
       ELSE \E c \in target :
              /\ edit_chunk(c)
              /\ edits_received' = edits_received \cup {c}

\* ServerEvent::NoEvent: the event loop ends.
NoEvent ==
    /\ pc = "events"
    /\ pc' = "generated"
    /\ UNCHANGED <<players, physics_players, chunks, light, generating_chunks,
                   updated_chunks, chunk_lighting_updates, updated_light_chunks,
                   worldgen_worker, light_worker, sent, first_sent,
                   handshakes, last_chunk, held, discarded, lost, events,
                   edits_received,
                   highest_opaque_block,
                   voxel_vars>>

\* accepted_chunks without the test against generating_chunks.
accepted_chunks_unfiltered(results) == results

\* The results of worldgen_worker.get_processed() that the loop saves: the
\* chunks whose position is still in generating_chunks.
accepted_chunks(results) == results \cap generating_chunks

\* "Receive generated chunks". A generated chunk is revision 0.
ReceiveGenerated ==
    /\ pc = "generated"
    /\ pc' = "lighted"
    /\ LET results == worldgen_worker.out
           new == [p \in accepted_chunks(results) |-> 0]
       IN /\ generating_chunks' = generating_chunks \ results
          /\ \E changed \in [DOMAIN new -> BOOLEAN] : save_chunk(new, changed)
          /\ discarded' = results \ generating_chunks
    /\ worldgen_worker' = [worldgen_worker EXCEPT !.out = {}]
    /\ UNCHANGED <<players, physics_players, light, updated_light_chunks,
                   light_worker, sent, first_sent, handshakes,
                   last_chunk, held, lost, events,
                   edits_received,
                   voxel_vars>>

\* World::set_light_chunk, on the key set of world.light: the LightChunk is
\* stored under its position.
set_light_chunk(keys, pos) == keys \cup {pos}

RECURSIVE set_light_chunks(_, _)
set_light_chunks(keys, results) ==
    IF results = {} THEN keys
    ELSE LET r == CHOOSE r \in results : TRUE
         IN set_light_chunks(set_light_chunk(keys, r), results \ {r})

\* "Receive lighted chunks": each result is remembered as updated in this
\* tick and stored in the world.
ReceiveLighted ==
    /\ pc = "lighted"
    /\ pc' = "dispatch"
    /\ updated_light_chunks' = light_worker.out
    /\ light' = set_light_chunks(light, light_worker.out)
    /\ light_worker' = [light_worker EXCEPT !.out = {}]
    /\ UNCHANGED <<players, physics_players, chunks, generating_chunks,
                   updated_chunks, chunk_lighting_updates, worldgen_worker,
                   sent, first_sent, handshakes, last_chunk, held,
                   discarded, lost, events,
                   edits_received,
                   highest_opaque_block,
                   voxel_vars>>

\* The loop over the pending positions that leaves them in the set.
drain_kept(pending) == pending

\* What chunk_lighting_updates.drain() leaves of the set once the loop has
\* consumed it.
drain(pending) == {}

\* "Send light updates": a lighting task for every pending position whose
\* chunk is in the world; chunk_lighting_updates.drain() empties the set.
\* The summaries the task reads that do not exist are created without a Y
\* (or_insert_with), which leaves the columns that hold a Y as they are.
SendLightUpdates ==
    /\ pc = "dispatch"
    /\ pc' = "physics"
    /\ light_worker' =
         [light_worker EXCEPT !.queue =
            @ \cup (chunk_lighting_updates \cap DOMAIN chunks)]
    /\ chunk_lighting_updates' = drain(chunk_lighting_updates)
    /\ UNCHANGED <<players, physics_players, chunks, light, generating_chunks,
                   updated_chunks, updated_light_chunks, worldgen_worker,
                   sent, first_sent, handshakes, last_chunk, held,
                   discarded, lost, events,
                   edits_received,
                   highest_opaque_block,
                   voxel_vars>>

\* "Tick game" and "Send updates to players": step_simulation moves every
\* player, here to any chunk of the modelled world (the time step is whatever
\* the clock says), and each connected player is sent the new state.
StepSimulation ==
    /\ pc = "physics"
    /\ pc' = "stream"
    /\ \E moved \in [DOMAIN physics_players -> Positions] :
         LET crossed == {i \in DOMAIN moved : moved[i] # physics_players[i]}
         IN /\ events + Cardinality(crossed) <= MaxEvents
            /\ events' = events + Cardinality(crossed)
            /\ physics_players' = moved
    /\ send([i \in PlayerIds |->
               IF i \in DOMAIN players THEN <<UpdatePhysicsMsg>> ELSE <<>>], {})
    /\ UNCHANGED <<players, chunks, light, generating_chunks, updated_chunks,
                   chunk_lighting_updates, updated_light_chunks,
                   worldgen_worker, light_worker, last_chunk, held,
                   discarded, lost,
                   edits_received,
                   highest_opaque_block,
                   voxel_vars>>

\* The messages of the "Send chunks to players" loop for one player: walking
\* the box in order, the Chunk (with its LightChunk) of each position in
\* sendable, then the standalone LightChunk of each position in lights.
RECURSIVE chunk_messages(_, _, _)
chunk_messages(order, sendable, lights) ==
    IF order = <<>> THEN <<>>
    ELSE LET p == Head(order)
         IN (IF p \in sendable THEN <<ChunkMsg(p, chunks[p])>> ELSE <<>>)
            \o (IF p \in lights THEN <<LightChunkMsg(p)>> ELSE <<>>)
            \o chunk_messages(Tail(order), sendable, lights)

\* needs_chunk without the test of loaded_chunks.
needs_chunk_every_tick(data, chunk_pos) == TRUE

\* The test of the loop: the player hasn't received the chunk yet, or the
\* chunk was saved in this tick.
needs_chunk(data, chunk_pos) ==
    chunk_pos \notin data.loaded_chunks \/ chunk_pos \in updated_chunks

\* The positions of player id's box that pass the test.
wanted_chunks(id) ==
    {p \in iterate_around_player(players[id].render_distance,
                                 physics_players[id]) :
        needs_chunk(players[id], p)}

\* missing_chunks that asks for nothing.
missing_chunks_none(id) == {}

\* missing_chunks without the look-up in the world.
missing_chunks_unchecked(id) == wanted_chunks(id)

\* The wanted positions that are not in the world: generation is asked for.
missing_chunks(id) == wanted_chunks(id) \ DOMAIN chunks

\* retain_visible that retains everything.
retain_all(loaded, render_distance, player_chunk) == loaded

\* data.loaded_chunks.retain(is_chunk_visible)
retain_visible(loaded, render_distance, player_chunk) ==
    {p \in loaded : is_chunk_visible(render_distance, player_chunk, p)}

\* "Send chunks to players", for every player: send the wanted chunks that
\* are in the world, ask the generation worker for the others unless they
\* are generating already, send the lights that arrived in this tick, and
\* forget the chunks that left the box.
SendChunks ==
    /\ pc = "stream"
    /\ pc' = "drop"
    /\ LET box(i) == iterate_around_player(players[i].render_distance,
                                           physics_players[i])
           sendable(i) == wanted_chunks(i) \cap DOMAIN chunks
           missing == UNION {missing_chunks(i) : i \in DOMAIN players}
           enqueued == missing \ generating_chunks
       IN /\ send([i \in PlayerIds |->
                     IF i \in DOMAIN players
                     THEN chunk_messages(Ordered(box(i)), sendable(i),
                                         updated_light_chunks)
                     ELSE <<>>], {})
          /\ players' =
               [i \in DOMAIN players |->
                  [players[i] EXCEPT !.loaded_chunks =
                     retain_visible(@ \cup sendable(i),
                                    players[i].render_distance,
                                    physics_players[i])]]
          /\ light' = light \cup UNION {sendable(i) : i \in DOMAIN players}
          /\ generating_chunks' = generating_chunks \cup missing
          /\ worldgen_worker' =
               [worldgen_worker EXCEPT !.queue = @ \cup enqueued]
          /\ lost' = lost \ enqueued
          /\ last_chunk' =
               [i \in PlayerIds |->
                  IF i \in DOMAIN players
                  THEN [p \in DOMAIN last_chunk[i] \cup sendable(i) |->
                          IF p \in sendable(i)
                          THEN [chunk |-> chunks[p], in_box |-> p \in box(i)]
                          ELSE last_chunk[i][p]]
                  ELSE last_chunk[i]]
          /\ held' =
               [i \in PlayerIds |->
                  IF i \in DOMAIN players
                  THEN (held[i] \cup sendable(i)) \cap box(i)
                  ELSE held[i]]
    /\ UNCHANGED <<physics_players, chunks, updated_chunks,
                   chunk_lighting_updates, updated_light_chunks, light_worker,
                   discarded, events,
                   edits_received,
                   highest_opaque_block,
                   voxel_vars>>

\* visible_to_some_player that forgets the render distance: a chunk is kept
\* while any player is connected.
some_player_connected(chunk_pos) == DOMAIN players # {}

\* Whether some player sees chunk_pos: the test of the three retain calls.
visible_to_some_player(chunk_pos) ==
    \E i \in DOMAIN players :
        is_chunk_visible(players[i].render_distance, physics_players[i],
                         chunk_pos)

\* "Drop chunks that are far from all players": chunks.retain with its
\* light.remove, generating_chunks.retain with its dequeue, and
\* chunk_lighting_updates.retain with its light.remove.
DropFarChunks ==
    /\ pc = "drop"
    /\ pc' = "start"
    /\ LET far(S) == {p \in S : ~visible_to_some_player(p)}
       IN /\ chunks' = Restrict(chunks, DOMAIN chunks \ far(DOMAIN chunks))
          /\ light' = (light \ far(DOMAIN chunks)) \ far(chunk_lighting_updates)
          /\ generating_chunks' = generating_chunks \ far(generating_chunks)
          /\ worldgen_worker' =
               [worldgen_worker EXCEPT !.queue = @ \ far(generating_chunks)]
          /\ chunk_lighting_updates' =
               chunk_lighting_updates \ far(chunk_lighting_updates)
          /\ lost' = lost \ far(generating_chunks)
          /\ edits_received' = edits_received \ far(DOMAIN chunks)
          /\ last_chunk' =
               [i \in PlayerIds |->
                  Restrict(last_chunk[i],
                           DOMAIN last_chunk[i] \ far(DOMAIN chunks))]
    /\ UNCHANGED <<players, physics_players, updated_chunks,
                   updated_light_chunks, light_worker, sent,
                   first_sent, handshakes, held, discarded, events,
                   highest_opaque_block,
                   voxel_vars>>

\* ------------------------------------------------------------ worker threads
\* The generation thread takes a pending task. Which one is a matter of
\* priority (the nearest to a player first); any of them may be the one.
WorldgenTake(p) ==
    /\ worldgen_worker.current = {}
    /\ p \in worldgen_worker.queue
    /\ worldgen_worker' = [worldgen_worker EXCEPT !.queue = @ \ {p},
                                                  !.current = {p}]
    /\ UNCHANGED <<pc, players, physics_players, chunks, light,
                   generating_chunks, updated_chunks, chunk_lighting_updates,
                   updated_light_chunks, light_worker, sent,
                   first_sent, handshakes, last_chunk, held, discarded, lost,
                   events,
                   edits_received,
                   highest_opaque_block,
                   voxel_vars>>

\* The generation thread finishes its task: the chunk of that position.
WorldgenFinish ==
    /\ worldgen_worker.current # {}
    /\ worldgen_worker' =
         [worldgen_worker EXCEPT !.current = {},
                                 !.out = @ \cup worldgen_worker.current]
    /\ UNCHANGED <<pc, players, physics_players, chunks, light,
                   generating_chunks, updated_chunks, chunk_lighting_updates,
                   updated_light_chunks, light_worker, sent, first_sent,
                   handshakes, last_chunk, held, discarded, lost, events,
                   edits_received,
                   highest_opaque_block,
                   voxel_vars>>

\* The generation thread drops the result of its task (the task function
\* failed).
WorldgenDrop ==
    /\ \E p \in worldgen_worker.current :
         /\ worldgen_worker' = [worldgen_worker EXCEPT !.current = {}]
         /\ lost' = lost \cup {p}
    /\ UNCHANGED <<pc, players, physics_players, chunks, light,
                   generating_chunks, updated_chunks, chunk_lighting_updates,
                   updated_light_chunks, light_worker, sent,
                   first_sent, handshakes, last_chunk, held, discarded, events,
                   edits_received,
                   highest_opaque_block,
                   voxel_vars>>

\* The lighting thread computes a pending task: a LightChunk for that
\* position. The server never dequeues a lighting task, so whether a task is
\* pending or in progress makes no difference to it, and the task is taken
\* and finished in one step.
LightCompute(p) ==
    /\ p \in light_worker.queue
    /\ light_worker' = [light_worker EXCEPT !.queue = @ \ {p},
                                            !.out = @ \cup {p}]
    /\ UNCHANGED <<pc, players, physics_players, chunks, light,
                   generating_chunks, updated_chunks, chunk_lighting_updates,
                   updated_light_chunks, worldgen_worker, sent,
                   first_sent, handshakes, last_chunk, held, discarded, lost,
                   events,
                   edits_received,
                   highest_opaque_block,
                   voxel_vars>>

\* ------------------------------------------------------------ specification
Tick ==
    \/ TickStart
    \/ NoEvent
    \/ ReceiveGenerated
    \/ ReceiveLighted
    \/ SendLightUpdates
    \/ StepSimulation
    \/ SendChunks
    \/ DropFarChunks

Event ==
    \/ \E id \in PlayerIds : ClientConnected(id)
    \/ \E id \in PlayerIds : ClientDisconnected(id)
    \/ \E id \in PlayerIds : UpdateInput(id)
    \/ \E id \in PlayerIds, rd \in RenderDistances : SetRenderDistance(id, rd)
    \/ \E id \in PlayerIds, target \in Targets : BreakBlock(id, target)
    \/ \E id \in PlayerIds : SelectBlock(id)
    \/ \E id \in PlayerIds, target \in Targets : PlaceBlock(id, target)

Workers ==
    \/ \E p \in Positions : WorldgenTake(p)
    \/ WorldgenFinish
    \/ \E p \in Positions : LightCompute(p)

Next == Tick \/ Event \/ Workers \/ WorldgenDrop

Spec == Init /\ [][Next]_vars

\* The tick loop never stops, and neither does the generation thread: it
\* takes a pending task when it has none, and its task ends, with a chunk or
\* without one.
FairSpec ==
    /\ Spec
    /\ WF_vars(Tick)
    /\ WF_vars(\E p \in Positions : WorldgenTake(p))
    /\ WF_vars(WorldgenFinish \/ WorldgenDrop)

\* How many external happenings the runs checked for liveness have.
MaxLiveEvents == 3

\* Server::new, with an environment that has MaxLiveEvents happenings left.
LiveInit ==
    \E e \in {MaxEvents - MaxLiveEvents} :
        /\ events = e
        /\ pc = "start"
        /\ players = <<>>
        /\ physics_players = <<>>
        /\ chunks = <<>>
        /\ light = {}
        /\ generating_chunks = {}
        /\ updated_chunks = {}
        /\ chunk_lighting_updates = {}
        /\ updated_light_chunks = {}
        /\ worldgen_worker = NewWorker
        /\ light_worker = NewWorker
        /\ sent = [i \in PlayerIds |-> <<>>]
        /\ first_sent = [i \in PlayerIds |-> <<>>]
        /\ handshakes = [i \in PlayerIds |-> [GameData |-> 0, CurrentId |-> 0]]
        /\ last_chunk = [i \in PlayerIds |-> <<>>]
        /\ held = [i \in PlayerIds |-> {}]
        /\ discarded = {}
        /\ lost = {}
        /\ edits_received = {}
        /\ highest_opaque_block = {}
        /\ NoVoxels

\* The server with a generation thread that completes every task it takes.
LiveNext == Tick \/ Event \/ Workers

LiveSpec ==
    /\ LiveInit
    /\ [][LiveNext]_vars
    /\ WF_vars(Tick)
    /\ WF_vars(\E p \in Positions : WorldgenTake(p))
    /\ WF_vars(WorldgenFinish)

\* ------------------------------------------------------------------ claims
\* Whether p is in the render-distance box of connected player i.
InBox(i, p) ==
    p \in iterate_around_player(players[i].render_distance, physics_players[i])

\* How many Chunk messages for position p a sequence of messages holds.
RECURSIVE ChunkCount(_, _)
ChunkCount(seq, p) ==
    IF seq = <<>> THEN 0
    ELSE (IF Head(seq).type = "Chunk" /\ Head(seq).pos = p THEN 1 ELSE 0)
         + ChunkCount(Tail(seq), p)

\* C1: the first two messages of a connection are GameData, then
\* CurrentId(id) with the id of the client; nothing precedes them, and
\* neither is sent a second time while the connection lasts.
HandshakeFirst ==
    \A id \in PlayerIds :
        /\ handshakes[id].GameData <= 1
        /\ handshakes[id].CurrentId <= 1
        /\ \A k \in 1..Len(sent[id]) :
             sent[id][k].type = "CurrentId" => sent[id][k].id = id
        /\ id \in DOMAIN players =>
             /\ Len(first_sent[id]) >= 2
             /\ first_sent[id][1] = "GameData"
             /\ first_sent[id][2] = "CurrentId"
             /\ handshakes[id].GameData = 1
             /\ handshakes[id].CurrentId = 1

\* A connected player that has been sent the handshake, a physics update
\* and a chunk.
HandshakeThenChunk ==
    \E id \in DOMAIN players :
        /\ Len(first_sent[id]) = FirstLen
        /\ first_sent[id][FirstLen] = "UpdatePhysics"
        /\ DOMAIN last_chunk[id] # {}

\* C2: no position is in generating_chunks and a key of world.chunks at the
\* same time, at any step of a tick.
GeneratingOrLoaded == generating_chunks \cap DOMAIN chunks = {}

\* A late result has just been dropped while one chunk is loaded and
\* another is being generated.
LoadedNextToGenerating ==
    /\ discarded # {}
    /\ DOMAIN chunks # {}
    /\ generating_chunks # {}

\* C3: at the end of a tick every chunk of the world and every generating
\* position is in the box of some connected player.
FarChunksDropped ==
    pc = "start" =>
        \A p \in DOMAIN chunks \cup generating_chunks :
            \E i \in DOMAIN players : InBox(i, p)

\* A tick ends in which a chunk was saved and, no player covering it any
\* more, dropped.
SavedAndDropped ==
    /\ pc = "start"
    /\ DOMAIN players # {}
    /\ \E p \in updated_chunks : p \notin DOMAIN chunks

\* C4: at the end of a tick world.light has a LightChunk only for chunks of
\* world.chunks.
LightMirrorsChunks == pc = "start" => light \subseteq DOMAIN chunks

\* C5: "Receive generated chunks" inserts a chunk only for a position in
\* generating_chunks, which it removes from the set; a result for any other
\* position changes neither world.chunks nor updated_chunks nor the pending
\* lighting.
LateResultsDiscarded ==
    [][pc = "generated" /\ pc' = "lighted" =>
         LET results == worldgen_worker.out
             live == results \cap generating_chunks
         IN /\ DOMAIN chunks' = DOMAIN chunks \cup live
            /\ \A p \in DOMAIN chunks \ live : chunks'[p] = chunks[p]
            /\ generating_chunks' = generating_chunks \ live
            /\ updated_chunks' \ updated_chunks \subseteq live
            /\ \A c \in chunk_lighting_updates' \ chunk_lighting_updates :
                 \E p \in live : Abs(c.px - p.px) <= 1
            /\ live = {} =>
                 /\ chunks' = chunks
                 /\ updated_chunks' = updated_chunks
                 /\ chunk_lighting_updates' = chunk_lighting_updates]_vars

\* The drain has just dropped the result of a cancelled task: its position
\* is neither generating nor in the world.
CancelledResultDropped ==
    /\ pc = "lighted"
    /\ \E p \in discarded : p \notin DOMAIN chunks /\ p \notin generating_chunks

\* C6: when the generation thread drops the result of a task, generation of
\* that position is enqueued again, unless the chunk is in the world or no
\* player's box holds the position any more.
DroppedTaskRequeued ==
    \A p \in Positions :
        (p \in lost) ~>
            \/ p \notin lost
            \/ p \in DOMAIN chunks
            \/ ~visible_to_some_player(p)

\* C7: a position that stays in the box of a connected player is, from some
\* point on, a chunk of the world that was sent to the player and is in its
\* loaded_chunks.
BoxStreamed ==
    \A i \in PlayerIds, p \in Positions :
        <>[](i \in DOMAIN players /\ InBox(i, p))
            => <>[](/\ i \in DOMAIN players
                    /\ p \in players[i].loaded_chunks
                    /\ p \in DOMAIN last_chunk[i])

\* A player whose box is the whole row has been sent every chunk of it, the
\* generation thread having computed them one after the other.
WholeBoxStreamed ==
    \E i \in DOMAIN players :
        /\ \A p \in Positions : InBox(i, p)
        /\ players[i].loaded_chunks = Positions
        /\ DOMAIN last_chunk[i] = Positions
        /\ worldgen_worker = NewWorker

\* C8: a Chunk for a position is sent to a player at most once per tick, in
\* the streaming step, and if the player has held the chunk (it was sent and
\* has been in the box ever since) only when the chunk was saved in this tick
\* and is not the chunk sent last.
SentOncePerChange ==
    [][\A i \in PlayerIds, p \in Positions :
         ChunkCount(sent'[i], p) > ChunkCount(sent[i], p) =>
            /\ ChunkCount(sent'[i], p) = 1
            /\ pc = "stream"
            /\ p \in held[i] =>
                 /\ p \in updated_chunks
                 /\ chunks[p] # last_chunk[i][p].chunk]_vars

\* After streaming, a player holds two chunks: the edited one was sent again
\* in this tick, the other one was not.
EditedChunkResent ==
    /\ pc = "drop"
    /\ \E i \in DOMAIN players : \E p \in held[i], q \in held[i] :
         /\ chunks[p] > 0
         /\ ChunkCount(sent[i], p) = 1
         /\ ChunkCount(sent[i], q) = 0

\* C9: a chunk of the world that a player has in loaded_chunks is in the
\* player's box or was in it when last sent, and at the end of a tick
\* loaded_chunks holds only positions of the box.
LoadedInBox ==
    /\ \A i \in DOMAIN players :
         \A p \in players[i].loaded_chunks \cap DOMAIN chunks :
            \/ InBox(i, p)
            \/ p \in DOMAIN last_chunk[i] /\ last_chunk[i][p].in_box
    /\ pc = "start" =>
         \A i \in DOMAIN players :
            \A p \in players[i].loaded_chunks : InBox(i, p)

\* A tick ends with a player that no longer has in loaded_chunks a chunk it
\* was sent and that is still in the world.
LoadedChunkForgotten ==
    /\ pc = "start"
    /\ \E i \in DOMAIN players :
         /\ players[i].loaded_chunks # {}
         /\ \E p \in DOMAIN last_chunk[i] :
              p \in DOMAIN chunks /\ p \notin players[i].loaded_chunks

\* C10: the chunks sent to a player for a position come in the order they
\* were saved: a Chunk message never carries an older revision than the
\* last one sent to that player for the chunk in the world (a chunk that is
\* generated again after its eviction is a later save than any before).
SnapshotsInOrder ==
    [][\A i \in PlayerIds :
         \A k \in (Len(sent[i]) + 1)..Len(sent'[i]) :
            LET m == sent'[i][k]
            IN m.type = "Chunk" =>
                 /\ m.pos \in DOMAIN last_chunk[i] =>
                      last_chunk[i][m.pos].chunk <= m.chunk
                 /\ \A j \in (Len(sent[i]) + 1)..(k - 1) :
                      (sent'[i][j].type = "Chunk" /\ sent'[i][j].pos = m.pos)
                         => sent'[i][j].chunk <= m.chunk]_vars

\* Two players have been sent the second edit of a chunk after its first.
EditsSentInOrder ==
    \E i \in DOMAIN players, j \in DOMAIN players :
        /\ i # j
        /\ \E p \in DOMAIN last_chunk[i] \cap DOMAIN last_chunk[j] :
             last_chunk[i][p].chunk = 2 /\ last_chunk[j][p].chunk = 2

\* C11: an edit message is handled in the event loop, where its chunk is
\* saved at once; when the physics step of the tick runs, every chunk an
\* edit message of the tick was about is in the world as saved in this tick.
EditsBeforePhysics ==
    [][/\ \A p \in edits_received' \ edits_received :
            /\ pc = "events" /\ pc' = "events"
            /\ p \in updated_chunks'
            /\ chunks'[p] = chunks[p] + 1
       /\ (pc = "physics" /\ pc' = "stream") =>
            \A p \in edits_received :
                p \in DOMAIN chunks /\ p \in updated_chunks]_vars

\* The physics step has run in a tick with edit messages about two chunks.
PhysicsAfterEdits ==
    /\ pc = "stream"
    /\ \E p \in edits_received, q \in edits_received : p # q

\* C15: an id without an open connection has neither PlayerData nor a
\* physics entry, has been sent nothing since its connection ended, and at
\* the end of a tick every chunk and every generating position is in the
\* box of a player other than it.
DisconnectedPlayerGone ==
    \A id \in PlayerIds :
        handshakes[id].GameData = 0 =>
            /\ id \notin DOMAIN players
            /\ id \notin DOMAIN physics_players
            /\ sent[id] = <<>>
            /\ pc = "start" =>
                 \A p \in DOMAIN chunks \cup generating_chunks :
                    \E i \in DOMAIN players \ {id} : InBox(i, p)

\* A tick ends in which the only player disconnected: the chunk that was
\* generated for it and saved in this tick is dropped.
LastPlayerLeft ==
    /\ pc = "start"
    /\ events >= 2
    /\ DOMAIN players = {}
    /\ updated_chunks # {}
    /\ DOMAIN chunks = {}


\* The lighting results waiting to be received that are older than the task
\* dispatched last for their position: the thread computed them (taking the
\* task out of the queue) before a newer task for the position was enqueued.
stale_results == light_worker.out \cap light_worker.queue

\* C18: "Receive lighted chunks" discards a lighting result that is older
\* than the lighting task dispatched last for its position: it is neither
\* stored in world.light nor remembered as a light to send to the players.
StaleLightDiscarded ==
    [][pc = "lighted" /\ pc' = "dispatch" =>
         \A p \in stale_results :
            /\ p \notin updated_light_chunks'
            /\ p \notin light => p \notin light']_vars


\* The columns that have a chunk in the world: the only ones whose opaque
\* blocks have a maximum Y.
loaded_columns == {ChunkPosXZ(p) : p \in DOMAIN chunks}

\* C19: at the end of a tick the HighestOpaqueBlock summary of a column is
\* what the chunks of the column that are in world.chunks give: it holds a
\* Y only if a chunk of the column is loaded, also after the chunks of the
\* column were dropped.
SummaryOfLoadedChunks ==
    pc = "start" => highest_opaque_block \subseteq loaded_columns


\* ------------------------------------------------ save_chunk in a 3-D world
\* How far the chunks of the world checked for save_chunk reach in x and y.
MaxGridX == 1
MaxGridY == 2

\* How many chunks are saved in a run of it.
MaxSaves == 2

\* The positions of that world: two columns, three chunks high.
Grid == {ChunkPos(x, y, 0) : x \in 0..MaxGridX, y \in 0..MaxGridY}

\* A server whose world holds any chunks of the grid, every column with a
\* summary, and nothing pending.
SaveInit ==
    \E loaded \in SUBSET Grid :
        /\ chunks = [p \in loaded |-> 0]
        /\ highest_opaque_block = {ChunkPosXZ(p) : p \in Grid}
        /\ events = MaxEvents - MaxSaves
        /\ pc = "start"
        /\ players = <<>>
        /\ physics_players = <<>>
        /\ light = {}
        /\ generating_chunks = {}
        /\ updated_chunks = {}
        /\ chunk_lighting_updates = {}
        /\ updated_light_chunks = {}
        /\ worldgen_worker = NewWorker
        /\ light_worker = NewWorker
        /\ sent = [i \in PlayerIds |-> <<>>]
        /\ first_sent = [i \in PlayerIds |-> <<>>]
        /\ handshakes = [i \in PlayerIds |-> [GameData |-> 0, CurrentId |-> 0]]
        /\ last_chunk = [i \in PlayerIds |-> <<>>]
        /\ held = [i \in PlayerIds |-> {}]
        /\ discarded = {}
        /\ lost = {}
        /\ edits_received = {}
        /\ NoVoxels

\* Server::save_chunk(chunk) for a chunk at p, generated or edited;
\* changed is what update_highest_opaque_block(p) returns.
SaveChunk(p, changed) ==
    /\ events < MaxEvents
    /\ events' = events + 1
    /\ save_chunk([q \in {p} |-> IF p \in DOMAIN chunks THEN chunks[p] + 1
                                 ELSE 0],
                  [q \in {p} |-> changed])
    /\ call' = Some([chunk_pos |-> p, changed |-> changed])
    /\ UNCHANGED <<pc, players, physics_players, light, generating_chunks,
                   updated_light_chunks, worldgen_worker, light_worker,
                   sent, first_sent, handshakes, last_chunk, held,
                   discarded, lost, edits_received,
                   world_blocks, pick, aabb, light_levels, velocity,
                   yaw_pitch,
                   renderer>>

SaveNext == \E p \in Grid, changed \in BOOLEAN : SaveChunk(p, changed)

SaveSpec == SaveInit /\ [][SaveNext]_vars

\* Whether chunk c is in the 3x3x3 neighbourhood of chunk p.
InNeighbourhood(c, p) ==
    /\ Abs(c.px - p.px) <= 1
    /\ Abs(c.py - p.py) <= 1
    /\ Abs(c.pz - p.pz) <= 1

\* C16: save_chunk of a chunk at P puts every chunk of the world that is in
\* the 3x3x3 neighbourhood of P, the chunks above P included, in the pending
\* lighting, whether the summary of the column changed or not.
SaveLightsNeighbourhood ==
    [][\A p \in DOMAIN chunks' :
         (p \notin DOMAIN chunks \/ chunks'[p] # chunks[p]) =>
            \A c \in DOMAIN chunks' :
               InNeighbourhood(c, p) => c \in chunk_lighting_updates']_vars

\* Whether chunk c is in the 3x3 XZ footprint of chunk p, at the Y of p or
\* anywhere below.
InFootprintBelow(c, p) ==
    /\ Abs(c.px - p.px) <= 1
    /\ Abs(c.pz - p.pz) <= 1
    /\ c.py <= p.py

\* C27: save_chunk of a chunk at P adds P to updated_chunks and adds to the
\* pending lighting, when the summary of the column changed, every loaded
\* chunk of the 3x3 XZ footprint at the Y of P or below, however far, and
\* otherwise exactly the loaded chunks of the 3x3x3 neighbourhood of P.
SaveEnqueuesByChange ==
    [][\A c \in call' :
         events' = events + 1 =>
            /\ c.chunk_pos \in updated_chunks'
            /\ chunk_lighting_updates' =
                 chunk_lighting_updates \cup
                 {q \in DOMAIN chunks' :
                    IF c.changed THEN InFootprintBelow(q, c.chunk_pos)
                    ELSE InNeighbourhood(q, c.chunk_pos)}]_vars

\* A save whose summary changed has put a chunk two below it in the
\* pending lighting.
FarBelowEnqueued ==
    \E c \in call : \E q \in chunk_lighting_updates :
        /\ c.changed
        /\ c.chunk_pos \in updated_chunks
        /\ q.py = c.chunk_pos.py - 2
        /\ InFootprintBelow(q, c.chunk_pos)


\* ------------------------------------------------------ picking and placing
\* Lengths are in millionths of a block: f64 coordinates with six decimals.
UNIT == 1000000

\* The side of a chunk, in blocks.
CHUNK_SIZE == 32

\* CAMERA_OFFSET: the camera is 1.6 blocks above the player's position.
CAMERA_OFFSET == [x |-> 0, y |-> 1600000, z |-> 0]

BlockPos(x, y, z) == [px |-> x, py |-> y, pz |-> z]

\* BlockPos::from(Point3): the floor of each coordinate. Coordinates are
\* not negative in the worlds examined.
BlockPosFrom(pos) == BlockPos(pos.x \div UNIT, pos.y \div UNIT, pos.z \div UNIT)

\* containing_chunk_pos that divides towards 0, as `/` does.
containing_chunk_pos_truncated(block) ==
    ChunkPos(IF block.px < 0 THEN -((-block.px) \div CHUNK_SIZE)
             ELSE block.px \div CHUNK_SIZE,
             IF block.py < 0 THEN -((-block.py) \div CHUNK_SIZE)
             ELSE block.py \div CHUNK_SIZE,
             IF block.pz < 0 THEN -((-block.pz) \div CHUNK_SIZE)
             ELSE block.pz \div CHUNK_SIZE)

\* BlockPos::containing_chunk_pos
containing_chunk_pos(block) ==
    ChunkPos(block.px \div CHUNK_SIZE, block.py \div CHUNK_SIZE,
             block.pz \div CHUNK_SIZE)

\* BlockContainer::is_block_full: a block that is not air.
is_block_full(world, block) == block \in DOMAIN world /\ world[block] # 0

\* f64::floor and f64::ceil
Floor(c) == (c \div UNIT) * UNIT
Ceil(c) == IF c % UNIT = 0 THEN c ELSE Floor(c) + UNIT

\* The look directions examined: the rays along an axis or a diagonal, whose
\* non-zero components have the same magnitude, 1/sqrt(n) once normalised
\* (n the number of non-zero components). Such a ray advances by the same
\* length on each of its axes, and the distances of get_pointed_at are kept
\* as that length: the distance along the ray divided by sqrt(n).
Directions ==
    {d \in [x : {-1, 0, 1}, y : {-1, 0, 1}, z : {-1, 0, 1}] :
        d.x # 0 \/ d.y # 0 \/ d.z # 0}

NonZero(d) ==
    (IF d.x # 0 THEN 1 ELSE 0) + (IF d.y # 0 THEN 1 ELSE 0)
        + (IF d.z # 0 THEN 1 ELSE 0)

\* 1e-5 along the ray, on each axis: 1e-5 / sqrt(n).
Epsilon(d) == IF NonZero(d) = 1 THEN 10 ELSE IF NonZero(d) = 2 THEN 7 ELSE 6

\* max_dist of a dir that is not normalised: 10 on each axis.
MaxPickDistEachAxis(d) == 10 * UNIT

\* max_dist = 10.0 along the ray, on each axis: 10 / sqrt(n).
MaxPickDist(d) ==
    IF NonZero(d) = 1 THEN 10 * UNIT
    ELSE IF NonZero(d) = 2 THEN 7071068 ELSE 5773503

\* The table with the unit vector of each face under the convention
\* 0=-X, 1=+X, 2=-Y, 3=+Y, 4=-Z, 5=+Z.
FaceVectors == <<<<-1, 0, 0>>, <<1, 0, 0>>, <<0, -1, 0>>, <<0, 1, 0>>,
                 <<0, 0, -1>>, <<0, 0, 1>>>>

\* const D of the server: the offset PlaceBlock adds for each face.
D == <<<<1, 0, 0>>, <<-1, 0, 0>>, <<0, 1, 0>>, <<0, -1, 0>>,
       <<0, 0, 1>>, <<0, 0, -1>>>>

\* dirs of get_pointed_at: the direction of travel of index i.
dirs == <<<<-1, 0, 0>>, <<1, 0, 0>>, <<0, -1, 0>>, <<0, 1, 0>>,
          <<0, 0, -1>>, <<0, 0, 1>>>>

\* dir.dot(&dirs[i]) > 1e-6
effective_movement(dir, i) ==
    dir.x * dirs[i + 1][1] + dir.y * dirs[i + 1][2] + dir.z * dirs[i + 1][3] > 0

\* targets[i] and the coordinate of pos it is compared with.
targets(pos, i) ==
    <<Floor(pos.x), Ceil(pos.x), Floor(pos.y), Ceil(pos.y),
      Floor(pos.z), Ceil(pos.z)>>[i + 1]

coordinate(pos, i) == <<pos.x, pos.x, pos.y, pos.y, pos.z, pos.z>>[i + 1]

\* dir_offset / effective_movement for index i
plane_dist(pos, i) == Abs(targets(pos, i) - coordinate(pos, i))

\* The loop over the six indices: curr_min and face, the first index with
\* the least distance among those the ray moves towards.
nearest_plane(pos, dir) ==
    LET moving == {i \in 0..5 : effective_movement(dir, i)}
        face == CHOOSE i \in moving :
                    \A j \in moving :
                        \/ plane_dist(pos, i) < plane_dist(pos, j)
                        \/ plane_dist(pos, i) = plane_dist(pos, j) /\ i <= j
    IN [curr_min |-> plane_dist(pos, face), face |-> face]

\* face ^ 1
Xor1(face) == IF face % 2 = 0 THEN face + 1 ELSE face - 1

\* pos += curr_min * dir
advance(pos, dir, len) ==
    [x |-> pos.x + len * dir.x, y |-> pos.y + len * dir.y,
     z |-> pos.z + len * dir.z]

\* PhysicsPlayer::get_camera_position of a box of size 0 at player_pos.
get_camera_position(player_pos) ==
    [x |-> player_pos.x + CAMERA_OFFSET.x, y |-> player_pos.y + CAMERA_OFFSET.y,
     z |-> player_pos.z + CAMERA_OFFSET.z]

\* The loop of get_pointed_at from a camera outside the full blocks: to the
\* nearest plane and 1e-5 beyond, until the block arrived in is full or
\* max_dist is used up.
RECURSIVE ray_march(_, _, _, _)
ray_march(pos, dir, max_dist, world) ==
    LET near == nearest_plane(pos, dir)
        len == near.curr_min + Epsilon(dir)
        next == advance(pos, dir, len)
    IN IF near.curr_min > max_dist THEN None
       ELSE IF is_block_full(world, BlockPosFrom(next))
            THEN Some([block |-> BlockPosFrom(next), face |-> near.face])
            ELSE ray_march(next, dir, max_dist - len, world)

\* PhysicsPlayer::get_pointed_at(dir, 10.0, world) of a player at player_pos
\* (a box of size 0).
get_pointed_at(player_pos, dir, world) ==
    LET pos == get_camera_position(player_pos)
    IN IF is_block_full(world, BlockPosFrom(pos))
       THEN Some([block |-> BlockPosFrom(pos),
                  face |-> Xor1(nearest_plane(pos, dir).face)])
       ELSE ray_march(pos, dir, MaxPickDist(dir), world)

\* The voxel the ray was in before the step that arrived in the block hit;
\* none when the camera is in the block hit or nothing is hit.
RECURSIVE voxel_before_hit(_, _, _, _)
voxel_before_hit(pos, dir, max_dist, world) ==
    LET near == nearest_plane(pos, dir)
        len == near.curr_min + Epsilon(dir)
        next == advance(pos, dir, len)
    IN IF is_block_full(world, BlockPosFrom(pos)) THEN None
       ELSE IF near.curr_min > max_dist THEN None
       ELSE IF is_block_full(world, BlockPosFrom(next))
            THEN Some(BlockPosFrom(pos))
            ELSE voxel_before_hit(next, dir, max_dist - len, world)

\* block.px += D[face][0]; block.py += D[face][1]; block.pz += D[face][2]
offset_by(block, table, face) ==
    BlockPos(block.px + table[face + 1][1], block.py + table[face + 1][2],
             block.pz + table[face + 1][3])



\* The voxels examined: two by two columns of the spawn chunk, from the
\* block at y = 59 to the block at y = 61.
Region == {BlockPos(x, y, z) : x \in 0..1, y \in 59..61, z \in 0..1}

\* How many of them are full at most, and the id of their block.
MaxFull == 2
GroundBlock == 2

\* The positions a pick is made from: on a corner or in the middle of a
\* block, the camera in the layer of y = 59 or in the layer of y = 61.
PlayerPositions ==
    [x : {0, UNIT \div 2}, y : {58 * UNIT, 60 * UNIT},
     z : {0, UNIT \div 2}]

\* How many picks a run has.
MaxPicks == 1

\* A server whose world is the spawn chunk, with any blocks of the region
\* full, before a block edit.
PickInit ==
    \E full \in SUBSET Region :
        /\ Cardinality(full) <= MaxFull
        /\ world_blocks = [b \in full |-> GroundBlock]
        /\ pick = None
        /\ light_levels = <<>>
        /\ velocity = None
        /\ yaw_pitch = None
        /\ call = None
        /\ renderer = None
        /\ aabb = None
        /\ chunks = [p \in {SpawnChunk} |-> 0]
        /\ highest_opaque_block = {ChunkPosXZ(SpawnChunk)}
        /\ events = MaxEvents - MaxPicks
        /\ pc = "start"
        /\ players = <<>>
        /\ physics_players = <<>>
        /\ light = {}
        /\ generating_chunks = {}
        /\ updated_chunks = {}
        /\ chunk_lighting_updates = {}
        /\ updated_light_chunks = {}
        /\ worldgen_worker = NewWorker
        /\ light_worker = NewWorker
        /\ sent = [i \in PlayerIds |-> <<>>]
        /\ first_sent = [i \in PlayerIds |-> <<>>]
        /\ handshakes = [i \in PlayerIds |-> [GameData |-> 0, CurrentId |-> 0]]
        /\ last_chunk = [i \in PlayerIds |-> <<>>]
        /\ held = [i \in PlayerIds |-> {}]
        /\ discarded = {}
        /\ lost = {}
        /\ edits_received = {}

\* ToServer::PlaceBlock(player_pos, yaw, pitch) at the level of voxels, dir
\* being the look direction of yaw and pitch, from a player whose
\* PlayerData holds block_to_place: the voxel at the offset of the face from
\* the block pointed at is set in a clone of its chunk, which is saved, if
\* the chunk is in the world. pick keeps what was pointed at, the voxel
\* set, what it held, and the voxel the ray came from.
PlaceBlockOf(player_pos, dir, block_to_place) ==
    LET pointed == get_pointed_at(player_pos, dir, world_blocks)
        before == voxel_before_hit(get_camera_position(player_pos), dir,
                                   MaxPickDist(dir), world_blocks)
    IN /\ events < MaxEvents
       /\ events' = events + 1
       /\ IF pointed = None
          THEN /\ pick' = Some([op |-> "PlaceBlock",
                                pointed |-> None, block |-> None,
                                before |-> before, was_full |-> FALSE])
               /\ UNCHANGED <<world_blocks, chunks, updated_chunks,
                              chunk_lighting_updates, highest_opaque_block>>
          ELSE \E hit \in pointed :
                 LET block == offset_by(hit.block, D, hit.face)
                     chunk_pos == containing_chunk_pos(block)
                 IN IF chunk_pos \in DOMAIN chunks
                    THEN /\ world_blocks' =
                              Put(world_blocks, block, block_to_place)
                         /\ \E changed \in BOOLEAN :
                              save_chunk(
                                [p \in {chunk_pos} |-> chunks[chunk_pos] + 1],
                                [p \in {chunk_pos} |-> changed])
                         /\ pick' = Some([op |-> "PlaceBlock",
                                          pointed |-> pointed,
                                          block |-> Some(block),
                                          before |-> before,
                                          was_full |->
                                            is_block_full(world_blocks, block)])
                    ELSE /\ pick' = Some([op |-> "PlaceBlock",
                                          pointed |-> pointed,
                                          block |-> None,
                                          before |-> before,
                                          was_full |-> FALSE])
                         /\ UNCHANGED <<world_blocks, chunks, updated_chunks,
                                        chunk_lighting_updates,
                                        highest_opaque_block>>
       /\ UNCHANGED <<pc, players, physics_players, light, generating_chunks,
                      updated_light_chunks, worldgen_worker, light_worker,
                      sent, first_sent, handshakes, last_chunk, held,
                      discarded, lost, edits_received, aabb,
                      light_levels, velocity, yaw_pitch,
                      call,
                      renderer>>

\* The PlaceBlock of a player who has selected no block.
PlaceBlockAt(player_pos, dir) ==
    PlaceBlockOf(player_pos, dir, DefaultBlockToPlace)

PickNext ==
    \E player_pos \in PlayerPositions, dir \in Directions :
        PlaceBlockAt(player_pos, dir)

PickSpec == PickInit /\ [][PickNext]_vars


\* C12: when the pick of a PlaceBlock hits a block and the chunk of the
\* voxel to set is loaded, the voxel set is the empty voxel the ray was in
\* immediately before the block hit; it holds the sender's block_to_place
\* afterwards and its chunk is among the chunks updated in this tick, which
\* the streaming step sends.
PlacedBeforeHit ==
    \A p \in pick : \A block \in p.block :
        /\ p.before = Some(block)
        /\ ~p.was_full
        /\ world_blocks[block] = DefaultBlockToPlace
        /\ containing_chunk_pos(block) \in updated_chunks


PLAYER_SIDE == 800000
PLAYER_HEIGHT == 1800000

\* The box of a player whose position (the middle of its lower face) is
\* pos: AABB::from_half_extents with the half extents of Default.
player_box(pos) ==
    [mins |-> [x |-> pos.x - PLAYER_SIDE \div 2, y |-> pos.y,
               z |-> pos.z - PLAYER_SIDE \div 2],
     maxs |-> [x |-> pos.x + PLAYER_SIDE \div 2, y |-> pos.y + PLAYER_HEIGHT,
               z |-> pos.z + PLAYER_SIDE \div 2]]

\* PhysicsPlayer::position: the centre of the box, at the height of its
\* lower face.
position(box) ==
    [x |-> (box.mins.x + box.maxs.x) \div 2, y |-> box.mins.y,
     z |-> (box.mins.z + box.maxs.z) \div 2]

\* AABB::transform_by of a translation
translate(box, v) ==
    [mins |-> [x |-> box.mins.x + v.x, y |-> box.mins.y + v.y,
               z |-> box.mins.z + v.z],
     maxs |-> [x |-> box.maxs.x + v.x, y |-> box.maxs.y + v.y,
               z |-> box.maxs.z + v.z]]

\* The blocks aabb_intersects_world looks at: from the floor of mins to the
\* ceiling of maxs, the latter excluded.
blocks_of(box) ==
    {BlockPos(i, j, k) :
        i \in (Floor(box.mins.x) \div UNIT)..(Ceil(box.maxs.x) \div UNIT - 1),
        j \in (Floor(box.mins.y) \div UNIT)..(Ceil(box.maxs.y) \div UNIT - 1),
        k \in (Floor(box.mins.z) \div UNIT)..(Ceil(box.maxs.z) \div UNIT - 1)}

aabb_intersects_world(world, box) ==
    \E b \in blocks_of(box) : is_block_full(world, b)

\* The box lowered by 0.0021.
lowered(box) == translate(box, [x |-> 0, y |-> -2100, z |-> 0])

\* is_on_ground that leaves out the test of the box itself.
is_on_ground_untested(box, world) ==
    aabb_intersects_world(world, lowered(box))

\* PhysicsPlayer::is_on_ground
is_on_ground(box, world) ==
    /\ ~aabb_intersects_world(world, box)
    /\ aabb_intersects_world(world, lowered(box))

\* World::set_block that leaves the block as it is.
set_block_kept(world, block, id) == world

\* World::set_block(block, id) and Chunk::set_block_at: the block at that
\* position becomes id, no other block changes.
set_block(world, block, id) == Put(world, block, id)

\* The positions of the player examined: on the layer of y = 59, over one
\* block or astride two.
StandingPositions ==
    [x : {UNIT \div 2, UNIT}, y : {60 * UNIT}, z : {UNIT \div 2}]

\* A server whose world is the spawn chunk, with any blocks of the region
\* full and a player in it that intersects none of them.
BreakInit ==
    \E full \in SUBSET Region, pos \in StandingPositions :
        /\ Cardinality(full) <= MaxFull
        /\ world_blocks = [b \in full |-> GroundBlock]
        /\ aabb = Some(player_box(pos))
        /\ ~aabb_intersects_world(world_blocks, player_box(pos))
        /\ pick = None
        /\ light_levels = <<>>
        /\ velocity = None
        /\ yaw_pitch = None
        /\ call = None
        /\ renderer = None
        /\ chunks = [p \in {SpawnChunk} |-> 0]
        /\ highest_opaque_block = {ChunkPosXZ(SpawnChunk)}
        /\ events = MaxEvents - MaxPicks
        /\ pc = "start"
        /\ players = <<>>
        /\ physics_players = <<>>
        /\ light = {}
        /\ generating_chunks = {}
        /\ updated_chunks = {}
        /\ chunk_lighting_updates = {}
        /\ updated_light_chunks = {}
        /\ worldgen_worker = NewWorker
        /\ light_worker = NewWorker
        /\ sent = [i \in PlayerIds |-> <<>>]
        /\ first_sent = [i \in PlayerIds |-> <<>>]
        /\ handshakes = [i \in PlayerIds |-> [GameData |-> 0, CurrentId |-> 0]]
        /\ last_chunk = [i \in PlayerIds |-> <<>>]
        /\ held = [i \in PlayerIds |-> {}]
        /\ discarded = {}
        /\ lost = {}
        /\ edits_received = {}

\* ToServer::BreakBlock(player_pos, yaw, pitch) at the level of voxels, sent
\* by the player examined from its position, dir being the look direction
\* of yaw and pitch: the block pointed at becomes air in a clone of its
\* chunk, which is saved, if the chunk is in the world.
BreakBlockAt(dir) ==
    \E box \in aabb :
        LET pointed == get_pointed_at(position(box), dir, world_blocks)
        IN /\ events < MaxEvents
           /\ events' = events + 1
           /\ IF pointed = None
              THEN /\ pick' = Some([op |-> "BreakBlock",
                                    pointed |-> None, block |-> None,
                                    before |-> None, was_full |-> FALSE])
                   /\ UNCHANGED <<world_blocks, chunks, updated_chunks,
                                  chunk_lighting_updates, highest_opaque_block>>
              ELSE \E hit \in pointed :
                     LET chunk_pos == containing_chunk_pos(hit.block)
                     IN IF chunk_pos \in DOMAIN chunks
                        THEN /\ world_blocks' =
                                  set_block(world_blocks, hit.block, 0)
                             /\ \E changed \in BOOLEAN :
                                  save_chunk(
                                    [p \in {chunk_pos} |->
                                       chunks[chunk_pos] + 1],
                                    [p \in {chunk_pos} |-> changed])
                             /\ pick' = Some([op |-> "BreakBlock",
                                              pointed |-> pointed,
                                              block |-> Some(hit.block),
                                              before |-> None,
                                              was_full |-> TRUE])
                        ELSE /\ pick' = Some([op |-> "BreakBlock",
                                              pointed |-> pointed,
                                              block |-> None,
                                              before |-> None,
                                              was_full |-> FALSE])
                             /\ UNCHANGED <<world_blocks, chunks,
                                            updated_chunks,
                                            chunk_lighting_updates,
                                            highest_opaque_block>>
           /\ UNCHANGED <<pc, players, physics_players, light,
                          generating_chunks, updated_light_chunks,
                          worldgen_worker, light_worker, sent, first_sent,
                          handshakes, last_chunk, held, discarded, lost,
                          edits_received, aabb, light_levels, velocity,
                          yaw_pitch, call,
                          renderer>>

BreakNext == \E dir \in Directions : BreakBlockAt(dir)

BreakSpec == BreakInit /\ [][BreakNext]_vars


\* Whether block b is under the box: one of the blocks the box lowered by
\* 0.0021 reaches.
under_box(box, b) == b \in blocks_of(lowered(box))

\* C14: when the pick of a BreakBlock hits a block of a loaded chunk, the
\* block is air afterwards, no other voxel has changed and the chunk is
\* among the chunks updated in this tick; a player that stood on the block
\* is on the ground afterwards exactly if another full block is under its
\* box.
BrokenBlockIsAir ==
    [][\A p \in pick' : \A b \in p.block : \A box \in aabb :
         pick = None =>
            /\ b \in DOMAIN world_blocks' /\ world_blocks'[b] = 0
            /\ \A v \in (DOMAIN world_blocks \cup DOMAIN world_blocks') \ {b} :
                 /\ v \in DOMAIN world_blocks /\ v \in DOMAIN world_blocks'
                 /\ world_blocks'[v] = world_blocks[v]
            /\ containing_chunk_pos(b) \in updated_chunks'
            /\ (is_on_ground(box, world_blocks) /\ under_box(box, b)) =>
                 (is_on_ground(box, world_blocks') <=>
                    \E o \in blocks_of(lowered(box)) \ {b} :
                        is_block_full(world_blocks, o))]_vars

\* The player has broken the only block it stood on and is not on the
\* ground any more.
GroundBroken ==
    \E p \in pick, box \in aabb : \E b \in p.block :
        /\ world_blocks[b] = 0
        /\ under_box(box, b)
        /\ ~is_on_ground(box, world_blocks)
        /\ containing_chunk_pos(b) \in updated_chunks

\* C14 as stated: a player that stood on the broken block is not on the
\* ground afterwards.
BrokenBlockUngrounds ==
    [][\A p \in pick' : \A b \in p.block : \A box \in aabb :
         (pick = None /\ is_on_ground(box, world_blocks) /\ under_box(box, b))
            => ~is_on_ground(box, world_blocks')]_vars


\* --------------------------------------------------- move_check_collision
\* One component of a delta. A component whose magnitude fits the lengths
\* kept here is [len |-> d, saturating |-> FALSE]. A component of
\* len * (2^32 - 1), len at least the extent of the box, is
\* [len |-> len, saturating |-> TRUE]: (d.abs() / s).ceil() is 2^32 - 1 or
\* more, which `as u32` turns into u32::MAX, and dd = d / step is len.
Component(len, saturating) == [len |-> len, saturating |-> saturating]

\* step of a component that does not saturate: (d.abs() / s).ceil() as u32
step_of(d, s) == (Abs(d.len) + s - 1) \div s

\* f64::signum of a length that is not 0
signum(d) == IF d < 0 THEN -1 ELSE 1

\* dd that is one whole extent of the box whatever the delta.
dd_of_extent(d, s) == IF d.len = 0 THEN 0 ELSE signum(d.len) * s

\* dd: d / (step as f64)
dd_of(d, s) ==
    IF d.saturating THEN d.len
    ELSE IF d.len = 0 THEN 0
    ELSE signum(d.len) * (Abs(d.len) \div step_of(d, s))

\* A vector along dimension r.
dimension_delta(r, len) ==
    [x |-> IF r = 1 THEN len ELSE 0, y |-> IF r = 2 THEN len ELSE 0,
     z |-> IF r = 3 THEN len ELSE 0]

\* self.aabb.extents()[r]
extent(box, r) ==
    <<box.maxs.x - box.mins.x, box.maxs.y - box.mins.y,
      box.maxs.z - box.mins.z>>[r]

\* The loop `while max_d - min_d > 0.001`: min_d when it ends.
RECURSIVE binary_search(_, _, _, _, _, _)
binary_search(world, new_pos, r, dd, min_d, max_d) ==
    IF max_d - min_d > 1000
    THEN LET med == (min_d + max_d) \div 2
             pot_pos == translate(new_pos, dimension_delta(r, med * signum(dd)))
         IN IF aabb_intersects_world(world, pot_pos)
            THEN binary_search(world, new_pos, r, dd, min_d, med)
            ELSE binary_search(world, new_pos, r, dd, med, max_d)
    ELSE min_d

\* Whether every block the box can reach by moving on along dimension r in
\* the direction of dd is outside the full blocks of the world.
clear_ahead(world, box, r, dd) ==
    \A b \in DOMAIN world :
        world[b] # 0 =>
            IF dd > 0
            THEN <<b.px, b.py, b.pz>>[r] * UNIT + UNIT
                    <= <<box.mins.x, box.mins.y, box.mins.z>>[r]
            ELSE <<b.px, b.py, b.pz>>[r] * UNIT
                    >= <<box.maxs.x, box.maxs.y, box.maxs.z>>[r]

\* The loop `for _ in 0..step[r]` with left iterations to go (left < 0 for
\* the u32::MAX of a saturated step): the box it leaves in self.aabb. A
\* saturated walk is followed until the box has left the full blocks
\* behind, the iterations after that finding nothing to stop at.
RECURSIVE dimension_walk(_, _, _, _, _)
dimension_walk(world, box, r, dd, left) ==
    IF left = 0 THEN box
    ELSE LET new_pos == translate(box, dimension_delta(r, dd))
         IN IF aabb_intersects_world(world, new_pos)
            THEN LET min_d == binary_search(world, box, r, dd, 0, Abs(dd))
                 IN translate(box,
                              dimension_delta(r, signum(dd) * (min_d \div 2)))
            ELSE IF left < 0 /\ clear_ahead(world, new_pos, r, dd)
                 THEN new_pos
                 ELSE dimension_walk(world, new_pos, r, dd, left - 1)

\* The body of `for r in 0..3` for dimension r.
move_dimension(world, box, r, d) ==
    dimension_walk(world, box, r, dd_of(d, extent(box, r)),
                   IF d.saturating THEN -1 ELSE step_of(d, extent(box, r)))

\* move_check_collision that tests the collisions of a box that is
\* inside a block as well.
move_always_checked(world, box, delta) ==
    move_dimension(world,
        move_dimension(world,
            move_dimension(world, box, 1, delta.x), 2, delta.y),
        3, delta.z)

\* PhysicsPlayer::move_check_collision(world, delta): the box afterwards.
move_check_collision(world, box, delta) ==
    IF aabb_intersects_world(world, box)
    THEN translate(box, [x |-> delta.x.len, y |-> delta.y.len,
                         z |-> delta.z.len])
    ELSE move_dimension(world,
            move_dimension(world,
                move_dimension(world, box, 1, delta.x), 2, delta.y),
            3, delta.z)

\* The lengths of a delta as a vector.
lengths(delta) == [x |-> delta.x.len, y |-> delta.y.len, z |-> delta.z.len]

\* What move_check_collision(world, delta) returns: delta for a box that
\* is inside a block, and otherwise self.aabb.mins - old_pos.mins.
move_returned(world, box, delta) ==
    IF aabb_intersects_world(world, box) THEN lengths(delta)
    ELSE LET moved == move_check_collision(world, box, delta)
         IN [x |-> moved.mins.x - box.mins.x, y |-> moved.mins.y - box.mins.y,
             z |-> moved.mins.z - box.mins.z]

\* The voxels examined for a move: five by two columns.
MoveRegion == {BlockPos(x, y, z) : x \in 0..4, y \in 59..61, z \in 0..1}

\* The deltas examined: shorter and longer than the box on x, up, down and
\* sideways, and a delta of 4 * (2^32 - 1) blocks along x.
Deltas ==
    [x : {Component(d, FALSE) : d \in {0, -300000, 300000, 1500000, 2500000}}
            \cup {Component(4 * UNIT, TRUE)},
     y : {Component(d, FALSE) : d \in {0, -500000, 500000}},
     z : {Component(d, FALSE) : d \in {0, 300000}}]

\* How many moves a run has.
MaxMoves == 1

\* The subsets of S that have n elements at most.
RECURSIVE SubsetsUpTo(_, _)
SubsetsUpTo(S, n) ==
    IF n = 0 THEN {{}}
    ELSE LET smaller == SubsetsUpTo(S, n - 1)
         IN smaller \cup {T \cup {b} : T \in smaller, b \in S}

\* A world with any blocks of the region full and a player in it that
\* intersects none of them.
MoveInit ==
    \E full \in SubsetsUpTo(MoveRegion, MaxFull), pos \in StandingPositions :
        /\ world_blocks = [b \in full |-> GroundBlock]
        /\ aabb = Some(player_box(pos))
        /\ ~aabb_intersects_world(world_blocks, player_box(pos))
        /\ pick = None
        /\ light_levels = <<>>
        /\ velocity = None
        /\ yaw_pitch = None
        /\ call = None
        /\ renderer = None
        /\ chunks = [p \in {SpawnChunk} |-> 0]
        /\ highest_opaque_block = {ChunkPosXZ(SpawnChunk)}
        /\ events = MaxEvents - MaxMoves
        /\ pc = "start"
        /\ players = <<>>
        /\ physics_players = <<>>
        /\ light = {}
        /\ generating_chunks = {}
        /\ updated_chunks = {}
        /\ chunk_lighting_updates = {}
        /\ updated_light_chunks = {}
        /\ worldgen_worker = NewWorker
        /\ light_worker = NewWorker
        /\ sent = [i \in PlayerIds |-> <<>>]
        /\ first_sent = [i \in PlayerIds |-> <<>>]
        /\ handshakes = [i \in PlayerIds |-> [GameData |-> 0, CurrentId |-> 0]]
        /\ last_chunk = [i \in PlayerIds |-> <<>>]
        /\ held = [i \in PlayerIds |-> {}]
        /\ discarded = {}
        /\ lost = {}
        /\ edits_received = {}

\* A call of move_check_collision on the player examined.
MoveCheckCollision(delta) ==
    /\ events < MaxEvents
    /\ events' = events + 1
    /\ \E box \in aabb :
         /\ aabb' = Some(move_check_collision(world_blocks, box, delta))
         /\ call' = Some([op |-> "move_check_collision", delta |-> delta,
                          returned |->
                            move_returned(world_blocks, box, delta)])
    /\ UNCHANGED <<pc, players, physics_players, chunks, light,
                   generating_chunks, updated_chunks, chunk_lighting_updates,
                   updated_light_chunks, worldgen_worker, light_worker, sent,
                   first_sent, handshakes, last_chunk, held, discarded, lost,
                   edits_received, highest_opaque_block, world_blocks, pick,
                   light_levels, velocity, yaw_pitch,
                   renderer>>

MoveNext == \E delta \in Deltas : MoveCheckCollision(delta)

MoveSpec == MoveInit /\ [][MoveNext]_vars

\* C20: a box that intersects no full block intersects none after
\* move_check_collision, whatever the delta.
MoveStaysClear ==
    [][\A box \in aabb : \A moved \in aabb' :
         ~aabb_intersects_world(world_blocks, box)
            => ~aabb_intersects_world(world_blocks, moved)]_vars


\* ----------------------------------------------------------------- lighting
\* The world examined for lighting: two by two columns, four blocks high,
\* of chunks with a side of one block, so that a voxel and its chunk have
\* the same position. The blocks at y = 0 are ground, always full.
LightGrid == {BlockPos(x, y, z) : x \in 0..1, y \in 0..3, z \in 0..1}
Ground == {b \in LightGrid : b.py = 0}

\* How many blocks above the ground are full at most, and how many edits a
\* run has.
MaxOpaque == 3
MaxEdits == 1

\* The sunlight of a voxel above the highest opaque block of its column.
SunLight == 15

\* The voxels of the grid next to voxel a.
adjacent(a) ==
    {b \in LightGrid :
        Abs(a.px - b.px) + Abs(a.py - b.py) + Abs(a.pz - b.pz) = 1}

\* HighestOpaqueBlock of the column of voxel a: the Y of the topmost full
\* block of the column.
highest_opaque(world, a) ==
    CHOOSE y \in 0..3 :
        /\ is_block_full(world, BlockPos(a.px, y, a.pz))
        /\ \A h \in (y + 1)..3 : ~is_block_full(world, BlockPos(a.px, h, a.pz))

\* The seeds of compute_light, as the pairs of a voxel and its level that
\* enter the queue: sunlight in every voxel strictly above the highest
\* opaque block of its column.
seed_light(world) ==
    {<<a, SunLight>> : a \in {v \in LightGrid :
                                v.py > highest_opaque(world, v)}}

\* The propagation of compute_light from the voxels that have left the
\* queue at level L on: in the order of the queue the voxels of level L
\* come before those of level L - 1, and a voxel of level L gives L - 1 to
\* each neighbour that is not opaque and has no level yet.
RECURSIVE propagate(_, _, _)
propagate(world, reached, L) ==
    IF L <= 1 THEN reached
    ELSE CHOOSE result \in
           {propagate(world,
                      now \cup
                        {<<n, L - 1>> :
                           n \in {v \in LightGrid :
                                    /\ ~is_block_full(world, v)
                                    /\ \A p \in now : p[1] # v
                                    /\ \E p \in now : /\ p[2] = L
                                                      /\ p[1] \in adjacent(v)}},
                      L - 1) : now \in {reached}} : TRUE

\* compute_light for the chunks of the world as it is: the level of every
\* voxel the propagation has reached, 0 for the others.
compute_light(world) ==
    CHOOSE levels \in
      {[a \in LightGrid |->
          IF \E p \in reached : p[1] = a
          THEN (CHOOSE p \in reached : p[1] = a)[2]
          ELSE 0] : reached \in {propagate(world, seed_light(world),
                                            SunLight)}} : TRUE

\* A server whose world holds the chunks of the grid, with any blocks above
\* the ground full, every chunk lit and no lighting pending.
LightInit ==
    \E full \in SubsetsUpTo(LightGrid \ Ground, MaxOpaque) :
        /\ world_blocks = [b \in full \cup Ground |-> GroundBlock]
        /\ light_levels =
             compute_light([b \in full \cup Ground |-> GroundBlock])
        /\ velocity = None
        /\ yaw_pitch = None
        /\ call = None
        /\ renderer = None
        /\ chunks = [p \in LightGrid |-> 0]
        /\ light = LightGrid
        /\ highest_opaque_block = {ChunkPosXZ(p) : p \in LightGrid}
        /\ events = MaxEvents - MaxEdits
        /\ pick = None
        /\ aabb = None
        /\ pc = "start"
        /\ players = <<>>
        /\ physics_players = <<>>
        /\ generating_chunks = {}
        /\ updated_chunks = {}
        /\ chunk_lighting_updates = {}
        /\ updated_light_chunks = {}
        /\ worldgen_worker = NewWorker
        /\ light_worker = NewWorker
        /\ sent = [i \in PlayerIds |-> <<>>]
        /\ first_sent = [i \in PlayerIds |-> <<>>]
        /\ handshakes = [i \in PlayerIds |-> [GameData |-> 0, CurrentId |-> 0]]
        /\ last_chunk = [i \in PlayerIds |-> <<>>]
        /\ held = [i \in PlayerIds |-> {}]
        /\ discarded = {}
        /\ lost = {}
        /\ edits_received = {}

\* The edit of a BreakBlock (id 0) or a PlaceBlock: the block of voxel b
\* becomes id in a clone of its chunk, which save_chunk stores;
\* update_highest_opaque_block returns whether the summary of the column
\* has changed.
SetBlock(b, id) ==
    LET edited == set_block(world_blocks, b, id)
        changed == highest_opaque(edited, b) # highest_opaque(world_blocks, b)
    IN /\ events < MaxEvents
       /\ events' = events + 1
       /\ is_block_full(world_blocks, b) # (id # 0)
       /\ world_blocks' = edited
       /\ save_chunk([p \in {b} |-> chunks[b] + 1], [p \in {b} |-> changed])
       /\ UNCHANGED <<pc, players, physics_players, light, generating_chunks,
                      updated_light_chunks, worldgen_worker, light_worker,
                      sent, first_sent, handshakes, last_chunk, held,
                      discarded, lost, edits_received, pick, aabb,
                      light_levels, velocity, yaw_pitch,
                      call,
                      renderer>>

\* The lighting worker drained until it is empty: a task is dispatched for
\* every pending chunk, the thread computes them, and the server stores the
\* LightChunk of each. The light of a chunk depends on the blocks only,
\* not on the order the tasks are computed in.
DrainLighting ==
    /\ chunk_lighting_updates # {}
    /\ light_levels' =
         [a \in LightGrid |->
            IF a \in chunk_lighting_updates
            THEN compute_light(world_blocks)[a]
            ELSE light_levels[a]]
    /\ light' = set_light_chunks(light, chunk_lighting_updates)
    /\ updated_light_chunks' = chunk_lighting_updates
    /\ chunk_lighting_updates' = {}
    /\ UNCHANGED <<pc, players, physics_players, chunks, generating_chunks,
                   updated_chunks, worldgen_worker, light_worker, sent,
                   first_sent, handshakes, last_chunk, held, discarded, lost,
                   events, edits_received, highest_opaque_block,
                   world_blocks, pick, aabb, velocity, yaw_pitch, call,
                   renderer>>

LightNext ==
    \/ \E b \in LightGrid \ Ground, id \in {0, DefaultBlockToPlace} :
         SetBlock(b, id)
    \/ DrainLighting

LightSpec == LightInit /\ [][LightNext]_vars

\* The lighting invariant in the 3x3x3 neighbourhood of chunk c: adjacent
\* voxels that are not opaque differ by 1 at most, and a voxel above the
\* highest opaque block of its column has sunlight.
lighting_invariant(c) ==
    \A a \in {v \in LightGrid : InNeighbourhood(v, c)} :
        ~is_block_full(world_blocks, a) =>
            /\ a.py > highest_opaque(world_blocks, a)
                  => light_levels[a] = SunLight
            /\ \A b \in adjacent(a) :
                 (InNeighbourhood(b, c) /\ ~is_block_full(world_blocks, b))
                    => Abs(light_levels[a] - light_levels[b]) <= 1

\* C17: after save_chunk(c) and the draining of the lighting worker, the
\* lighting invariant holds in the 3x3x3 neighbourhood of c.
LitAfterSave ==
    (chunk_lighting_updates = {} /\ light_levels # <<>>) =>
        \A c \in updated_chunks : lighting_invariant(c)


\* ------------------------------------------------------------- the cursor
\* A server that idles while a client or a physics player is examined: the
\* spawn chunk loaded, nobody connected, left events still to come.
IdleServer(left) ==
    /\ chunks = [p \in {SpawnChunk} |-> 0]
    /\ highest_opaque_block = {ChunkPosXZ(SpawnChunk)}
    /\ events = MaxEvents - left
    /\ pc = "start"
    /\ players = <<>>
    /\ physics_players = <<>>
    /\ light = {}
    /\ generating_chunks = {}
    /\ updated_chunks = {}
    /\ chunk_lighting_updates = {}
    /\ updated_light_chunks = {}
    /\ worldgen_worker = NewWorker
    /\ light_worker = NewWorker
    /\ sent = [i \in PlayerIds |-> <<>>]
    /\ first_sent = [i \in PlayerIds |-> <<>>]
    /\ handshakes = [i \in PlayerIds |-> [GameData |-> 0, CurrentId |-> 0]]
    /\ last_chunk = [i \in PlayerIds |-> <<>>]
    /\ held = [i \in PlayerIds |-> {}]
    /\ discarded = {}
    /\ lost = {}
    /\ edits_received = {}

\* Angles are kept in tenths of a degree, mouse deltas in pixels:
\* mouse_speed * dx is 2 * dx tenths.
DefaultYaw == -1270
DefaultPitch == -170
HalfTurn == 1800
QuarterTurn == 900

\* YawPitch::update_cursor(dx, dy)
update_cursor(yp, dx, dy) ==
    LET moved_yaw == yp.yaw - 2 * dx
        moved_pitch == yp.pitch - 2 * dy
        raised_yaw == IF moved_yaw < -HalfTurn THEN moved_yaw + 2 * HalfTurn
                      ELSE moved_yaw
        lowered_yaw == IF raised_yaw > HalfTurn THEN raised_yaw - 2 * HalfTurn
                       ELSE raised_yaw
        raised_pitch == IF moved_pitch < -QuarterTurn THEN -QuarterTurn
                        ELSE moved_pitch
        lowered_pitch == IF raised_pitch > QuarterTurn THEN QuarterTurn
                         ELSE raised_pitch
    IN [yaw |-> lowered_yaw, pitch |-> lowered_pitch]

\* The mouse deltas examined, in pixels: small ones, one that brings the
\* default yaw to -180 and one of more than a full turn.
MouseDeltas == {-3000, -265, -40, 0, 40, 265, 3000}

\* How many mouse motions a run has.
MaxMotions == 2

\* A client with YawPitch::default.
CursorInit ==
    /\ IdleServer(MaxMotions)
    /\ world_blocks = <<>>
    /\ pick = None
    /\ aabb = None
    /\ light_levels = <<>>
    /\ velocity = None
    /\ yaw_pitch = Some([yaw |-> DefaultYaw, pitch |-> DefaultPitch])
    /\ call = None
    /\ renderer = None

\* A mouse motion of (dx, dy) handled by the client.
UpdateCursor(dx, dy) ==
    /\ events < MaxEvents
    /\ events' = events + 1
    /\ \E yp \in yaw_pitch : yaw_pitch' = Some(update_cursor(yp, dx, dy))
    /\ call' = Some([dx |-> dx, dy |-> dy])
    /\ UNCHANGED <<pc, players, physics_players, chunks, light,
                   generating_chunks, updated_chunks, chunk_lighting_updates,
                   updated_light_chunks, worldgen_worker, light_worker, sent,
                   first_sent, handshakes, last_chunk, held, discarded, lost,
                   edits_received, highest_opaque_block, world_blocks, pick,
                   aabb, light_levels, velocity,
                   renderer>>

CursorNext == \E dx \in MouseDeltas, dy \in MouseDeltas : UpdateCursor(dx, dy)

CursorSpec == CursorInit /\ [][CursorNext]_vars

\* C25: after any sequence of update_cursor calls yaw is in (-180, 180] and
\* pitch is in [-90, 90].
YawPitchInRange ==
    \A yp \in yaw_pitch :
        /\ -HalfTurn < yp.yaw /\ yp.yaw <= HalfTurn
        /\ -QuarterTurn <= yp.pitch /\ yp.pitch <= QuarterTurn


\* ---------------------------------------------- the box, free or stuck
\* The deltas of a physics step examined: those of Deltas that keep the box
\* within three blocks, of one step or two along x.
StepDeltas == {d \in Deltas : ~d.x.saturating /\ d.x.len < 2 * UNIT}

\* The voxels examined around the box: three by two columns.
BoxRegion == {b \in MoveRegion : b.px <= 2}

\* How many calls on the player a run has.
MaxCalls == 2

\* A world with any blocks of the region full and a player in it, clear of
\* the blocks or inside some.
BoxInit ==
    \E full \in SubsetsUpTo(BoxRegion, MaxFull), pos \in StandingPositions :
        /\ IdleServer(MaxCalls)
        /\ world_blocks = [b \in full |-> GroundBlock]
        /\ aabb = Some(player_box(pos))
        /\ pick = None
        /\ light_levels = <<>>
        /\ velocity = None
        /\ yaw_pitch = None
        /\ call = None
        /\ renderer = None

\* A call of is_on_ground on the player examined.
IsOnGround ==
    /\ events < MaxEvents
    /\ events' = events + 1
    /\ \E box \in aabb :
         call' = Some([op |-> "is_on_ground",
                       returned |-> is_on_ground(box, world_blocks)])
    /\ UNCHANGED <<pc, players, physics_players, chunks, light,
                   generating_chunks, updated_chunks, chunk_lighting_updates,
                   updated_light_chunks, worldgen_worker, light_worker, sent,
                   first_sent, handshakes, last_chunk, held, discarded, lost,
                   edits_received, highest_opaque_block, world_blocks, pick,
                   aabb, light_levels, velocity, yaw_pitch,
                   renderer>>

BoxNext ==
    \/ \E delta \in StepDeltas : MoveCheckCollision(delta)
    \/ IsOnGround

BoxSpec == BoxInit /\ [][BoxNext]_vars


\* Whether length a is no longer than length d and not of the opposite
\* sign.
shorter_same_way(a, d) == Abs(a) <= Abs(d) /\ a * signum(d) >= 0

overlaps(box, b) ==
    /\ b.px * UNIT < box.maxs.x /\ (b.px + 1) * UNIT > box.mins.x
    /\ b.py * UNIT < box.maxs.y /\ (b.py + 1) * UNIT > box.mins.y
    /\ b.pz * UNIT < box.maxs.z /\ (b.pz + 1) * UNIT > box.mins.z

\* Whether the box intersects an opaque block of the world.
intersects_opaque(world, box) ==
    \E b \in DOMAIN world : world[b] # 0 /\ overlaps(box, b)

\* C22: is_on_ground returns true exactly if the box translated by
\* (0, -0.0021, 0) intersects an opaque block and the box itself does not;
\* it changes neither the player nor the world, and a call that follows
\* another with nothing moved in between returns the same.
OnGroundIffJustAbove ==
    [][\A c \in call' : \A box \in aabb :
         (events' = events + 1 /\ c.op = "is_on_ground") =>
            /\ c.returned <=>
                 /\ intersects_opaque(world_blocks,
                        translate(box, [x |-> 0, y |-> -2100, z |-> 0]))
                 /\ ~intersects_opaque(world_blocks, box)
            /\ UNCHANGED <<aabb, velocity, world_blocks,
                           renderer>>
            /\ \A before \in call :
                 before.op = "is_on_ground" => c.returned = before.returned]_vars

\* The player stands on a block and is_on_ground has said so twice.
StoodOnGround ==
    \E c \in call, box \in aabb :
        /\ c.op = "is_on_ground"
        /\ c.returned
        /\ events = MaxEvents
        /\ is_block_full(world_blocks,
                         BlockPos(Floor(box.mins.x) \div UNIT,
                                  box.mins.y \div UNIT - 1,
                                  Floor(box.mins.z) \div UNIT))

\* C28: a box that intersects an opaque block when move_check_collision is
\* called is translated by exactly delta, whatever is in the way, and
\* delta is returned.
StuckMovesFreely ==
    [][\A c \in call' : \A box \in aabb :
         (/\ events' = events + 1
          /\ c.op = "move_check_collision"
          /\ intersects_opaque(world_blocks, box)) =>
            /\ aabb' = Some(translate(box, lengths(c.delta)))
            /\ c.returned = lengths(c.delta)]_vars

\* A stuck player has moved further into the blocks: into a block it was
\* not in before.
MovedDeeper ==
    \E c \in call, box \in aabb :
        /\ c.op = "move_check_collision"
        /\ c.returned = lengths(c.delta)
        /\ \E b \in blocks_of(box) :
             /\ is_block_full(world_blocks, b)
             /\ ~overlaps(translate(box, [x |-> -c.returned.x,
                                          y |-> -c.returned.y,
                                          z |-> -c.returned.z]), b)
        /\ intersects_opaque(world_blocks,
                             translate(box, [x |-> -c.returned.x,
                                             y |-> -c.returned.y,
                                             z |-> -c.returned.z]))


\* ------------------------------------------------------------ the cameras
\* Speeds are kept in millionths of a block per second; seconds_delta is
\* 1 / rate for a rate of steps per second. Sums of key directions and
\* forces, whose components are whole blocks per second, are kept as such.
MAX_SPEED == 30
ACCELERATION == 25
JUMP_SPEED == 8
GRAVITY_ACCELERATION == 25
HORIZONTAL_SPEED == 7

\* The inputs examined: every combination of the six keys and of the
\* flying flag, looking along an axis.
Yaws == {0, 90}
PlayerInputs ==
    [key_move_forward : BOOLEAN, key_move_left : BOOLEAN,
     key_move_backward : BOOLEAN, key_move_right : BOOLEAN,
     key_move_up : BOOLEAN, key_move_down : BOOLEAN,
     yaw : Yaws, flying : BOOLEAN]

\* The rates of the physics steps examined.
Rates == {50, 60}

zeros == [x |-> 0, y |-> 0, z |-> 0]
plus(v, w) == [x |-> v.x + w.x, y |-> v.y + w.y, z |-> v.z + w.z]
times(v, k) == [x |-> v.x * k, y |-> v.y * k, z |-> v.z * k]

\* A length divided by a whole number, towards 0.
over(a, k) == signum(a) * (Abs(a) \div k)

\* movement_direction(yaw, angle) for yaw + angle a multiple of 90:
\* (-sin, 0, -cos) of it.
movement_direction(yaw, angle) ==
    LET turned == (yaw + angle) % 360
    IN IF turned = 0 THEN [x |-> 0, y |-> 0, z |-> -1]
       ELSE IF turned = 90 THEN [x |-> -1, y |-> 0, z |-> 0]
       ELSE IF turned = 180 THEN [x |-> 0, y |-> 0, z |-> 1]
       ELSE [x |-> 1, y |-> 0, z |-> 0]

\* The sum of the directions of the keys pressed, which both cameras begin
\* with.
key_directions(input) ==
    plus(plus(IF input.key_move_forward
              THEN movement_direction(input.yaw, 0) ELSE zeros,
              IF input.key_move_left
              THEN movement_direction(input.yaw, 90) ELSE zeros),
         plus(IF input.key_move_backward
              THEN movement_direction(input.yaw, 180) ELSE zeros,
              IF input.key_move_right
              THEN movement_direction(input.yaw, 270) ELSE zeros))

\* The square of the norm of a vector.
norm_squared(v) == v.x * v.x + v.y * v.y + v.z * v.z

\* The least r of lo..hi whose square is n at least.
RECURSIVE sqrt_up(_, _, _)
sqrt_up(n, lo, hi) ==
    IF lo >= hi THEN hi
    ELSE LET mid == (lo + hi) \div 2
         IN IF mid * mid >= n THEN sqrt_up(n, lo, mid)
            ELSE sqrt_up(n, mid + 1, hi)

\* A vector of whole components in millionths, its length left as it is.
not_scaled(v, speed) == [x |-> v.x * UNIT, y |-> v.y * UNIT, z |-> v.z * UNIT]

\* v * (speed / v.norm()) in millionths, for a v of whole components that
\* is not 0: the norm is taken to a hundredth, rounded up, and the
\* quotient to a thousandth, towards 0.
scaled_to(v, speed) ==
    LET norm == sqrt_up(norm_squared(v) * 10000, 0, 5000)
    IN [x |-> over(v.x * speed * 100000, norm) * 1000,
        y |-> over(v.y * speed * 100000, norm) * 1000,
        z |-> over(v.z * speed * 100000, norm) * 1000]

\* normalize_or_zero(v) * speed
normalize_or_zero_times(v, speed) ==
    IF norm_squared(v) > 0 THEN scaled_to(v, speed) ELSE zeros

\* A movement in millionths as the delta of move_check_collision.
delta_of(v) ==
    [x |-> Component(v.x, FALSE), y |-> Component(v.y, FALSE),
     z |-> Component(v.z, FALSE)]

\* FlyingCamera::compute_movement: the player afterwards.
flying_compute_movement(player, input, rate, world) ==
    LET sum == key_directions(input)
        force == [x |-> sum.x * ACCELERATION,
                  y |-> (IF input.key_move_up THEN MAX_SPEED ELSE 0)
                          - (IF input.key_move_down THEN MAX_SPEED ELSE 0),
                  z |-> sum.z * ACCELERATION]
        expected_movement ==
            IF norm_squared(force) > MAX_SPEED * MAX_SPEED
            THEN scaled_to(force, MAX_SPEED)
            ELSE times(force, UNIT)
        delta == delta_of([x |-> over(expected_movement.x, rate),
                           y |-> over(expected_movement.y, rate),
                           z |-> over(expected_movement.z, rate)])
    IN [aabb |-> move_check_collision(world, player.aabb, delta),
        velocity |-> times(move_returned(world, player.aabb, delta), rate)]

\* A walking camera that jumps whenever the up key is pressed.
walking_jump_anywhere(player, input, rate, world) ==
    LET vy == IF input.key_move_up THEN JUMP_SPEED * UNIT ELSE 0
        delta == delta_of([x |-> 0, y |-> over(vy, rate), z |-> 0])
    IN [aabb |-> move_check_collision(world, player.aabb, delta),
        velocity |-> [x |-> 0, y |-> vy, z |-> 0]]

\* WalkingCamera::compute_movement: the player afterwards.
walking_compute_movement(player, input, rate, world) ==
    LET horizontal_velocity ==
            normalize_or_zero_times(key_directions(input), HORIZONTAL_SPEED)
        fallen == player.velocity.y - (GRAVITY_ACCELERATION * UNIT) \div rate
        vy == IF is_on_ground(player.aabb, world)
              THEN IF input.key_move_up THEN JUMP_SPEED * UNIT ELSE 0
              ELSE IF fallen < -MAX_SPEED * UNIT THEN -MAX_SPEED * UNIT
                   ELSE fallen
        delta == delta_of([x |-> over(horizontal_velocity.x, rate),
                           y |-> over(vy, rate),
                           z |-> over(horizontal_velocity.z, rate)])
    IN [aabb |-> move_check_collision(world, player.aabb, delta),
        velocity |-> [x |-> 0, y |-> vy, z |-> 0]]

\* default_camera that looks at the flying flag only.
camera_by_flag(player, input, world) ==
    IF input.flying THEN "flying" ELSE "walking"

\* The camera default_camera runs.
camera_of(player, input, world) ==
    IF input.flying \/ aabb_intersects_world(world, player.aabb)
    THEN "flying" ELSE "walking"

\* default_camera(player, input, seconds_delta, world): the player
\* afterwards.
default_camera(player, input, rate, world) ==
    IF camera_of(player, input, world) = "flying"
    THEN flying_compute_movement(player, input, rate, world)
    ELSE walking_compute_movement(player, input, rate, world)

\* The voxels examined around the player: two columns.
CameraRegion == {b \in MoveRegion : b.px <= 1 /\ b.pz = 0}

\* The velocities a step starts with: at rest, just after a jump, and
\* after a long fall.
StartVelocities ==
    {[x |-> 0, y |-> vy, z |-> 0] :
        vy \in {0, JUMP_SPEED * UNIT, -MAX_SPEED * UNIT}}

\* How many physics steps a run has.
MaxSteps == 1

\* A world with any blocks of the region full and a player in it, clear of
\* the blocks or inside some, at rest, rising or falling.
CameraInit ==
    \E full \in SubsetsUpTo(CameraRegion, MaxFull),
       pos \in StandingPositions, v \in StartVelocities :
        /\ IdleServer(MaxSteps)
        /\ world_blocks = [b \in full |-> GroundBlock]
        /\ aabb = Some(player_box(pos))
        /\ velocity = Some(v)
        /\ pick = None
        /\ light_levels = <<>>
        /\ yaw_pitch = None
        /\ call = None
        /\ renderer = None

\* A physics step of the player examined: default_camera with the input
\* of the step and seconds_delta = 1 / rate.
DefaultCamera(input, rate) ==
    /\ events < MaxEvents
    /\ events' = events + 1
    /\ \E box \in aabb, v \in velocity :
         LET player == [aabb |-> box, velocity |-> v]
             after == default_camera(player, input, rate, world_blocks)
         IN /\ aabb' = Some(after.aabb)
            /\ velocity' = Some(after.velocity)
            /\ call' = Some([op |-> "default_camera",
                             camera |-> camera_of(player, input, world_blocks),
                             input |-> input, rate |-> rate])
    /\ UNCHANGED <<pc, players, physics_players, chunks, light,
                   generating_chunks, updated_chunks, chunk_lighting_updates,
                   updated_light_chunks, worldgen_worker, light_worker, sent,
                   first_sent, handshakes, last_chunk, held, discarded, lost,
                   edits_received, highest_opaque_block, world_blocks, pick,
                   light_levels, yaw_pitch,
                   renderer>>

CameraNext == \E input \in PlayerInputs, rate \in Rates : DefaultCamera(input, rate)

CameraSpec == CameraInit /\ [][CameraNext]_vars


\* Whether only the up key is pressed.
only_up(input) ==
    /\ input.key_move_up /\ ~input.key_move_down
    /\ ~input.key_move_forward /\ ~input.key_move_backward
    /\ ~input.key_move_left /\ ~input.key_move_right

\* The space the box sweeps when it rises by up.
swept_up(box, up) ==
    [mins |-> box.mins,
     maxs |-> [x |-> box.maxs.x, y |-> box.maxs.y + up, z |-> box.maxs.z]]

\* The square of the norm of a velocity, in hundredths of a block per
\* second.
speed_squared(v) ==
    (Abs(v.x) \div 10000) * (Abs(v.x) \div 10000)
    + (Abs(v.y) \div 10000) * (Abs(v.y) \div 10000)
    + (Abs(v.z) \div 10000) * (Abs(v.z) \div 10000)

CameraByRule ==
    [][\A c \in call' : \A box \in aabb : \A v \in velocity :
         (events' = events + 1 /\ c.op = "default_camera") =>
            LET player == [aabb |-> box, velocity |-> v]
                flies == c.input.flying \/ intersects_opaque(world_blocks, box)
                after == IF flies
                         THEN flying_compute_movement(player, c.input, c.rate,
                                                      world_blocks)
                         ELSE walking_compute_movement(player, c.input, c.rate,
                                                       world_blocks)
            IN /\ c.camera = IF flies THEN "flying" ELSE "walking"
               /\ aabb' = Some(after.aabb)
               /\ velocity' = Some(after.velocity)]_vars

\* A player inside a block has been moved by the flying camera with the
\* flying flag unset, and is at rest as no key was pressed.
StuckHasFlown ==
    \E c \in call, v \in velocity :
        /\ c.op = "default_camera"
        /\ c.camera = "flying"
        /\ ~c.input.flying
        /\ v = zeros

\* C30: the walking camera sets the vertical velocity to JUMP_SPEED = 8
\* when the player is on the ground and the up key is pressed, to 0 when
\* it is on the ground otherwise; in the air, the up key pressed or not,
\* the vertical velocity goes down by 25 * dt, and never below -30.
WalkingJumpsFromGround ==
    [][\A c \in call' : \A box \in aabb : \A v \in velocity :
         \A after \in velocity' :
         (events' = events + 1 /\ c.op = "default_camera"
            /\ c.camera = "walking") =>
            LET grounded ==
                    /\ ~intersects_opaque(world_blocks, box)
                    /\ intersects_opaque(world_blocks, lowered(box))
                fallen == v.y - (GRAVITY_ACCELERATION * UNIT) \div c.rate
            IN /\ grounded =>
                    after.y = IF c.input.key_move_up THEN JUMP_SPEED * UNIT
                              ELSE 0
               /\ ~grounded =>
                    after.y = IF fallen < -MAX_SPEED * UNIT
                              THEN -MAX_SPEED * UNIT ELSE fallen
               /\ after.y >= -MAX_SPEED * UNIT
               /\ (after.y = JUMP_SPEED * UNIT /\ after.y # fallen) =>
                    (grounded /\ c.input.key_move_up)]_vars

\* A player falling at full speed has pressed the up key in the air and
\* goes on falling at -30.
UpKeyInTheAir ==
    \E c \in call, v \in velocity :
        /\ c.op = "default_camera"
        /\ c.camera = "walking"
        /\ c.input.key_move_up
        /\ v.y = -MAX_SPEED * UNIT


\* ------------------------------------------------ the reach of the pick
\* How many times the loop of get_pointed_at runs from a camera outside the
\* full blocks until it returns.
RECURSIVE ray_iterations(_, _, _, _)
ray_iterations(pos, dir, max_dist, world) ==
    LET near == nearest_plane(pos, dir)
        len == near.curr_min + Epsilon(dir)
        next == advance(pos, dir, len)
    IN IF near.curr_min > max_dist THEN 1
       ELSE IF is_block_full(world, BlockPosFrom(next)) THEN 1
       ELSE 1 + ray_iterations(next, dir, max_dist - len, world)

\* The voxels examined at the end of the reach of a camera near the
\* origin at y = 61.6: along x, and along the diagonal of x and z.
FarRegion ==
    {BlockPos(x, 61, 0) : x \in 9..11} \cup {BlockPos(x, 61, x) : x \in 6..8}

\* The positions the far picks are made from.
FarPositions == {pos \in PlayerPositions : pos.y = 60 * UNIT}

\* A world with any blocks of the far region full, before a pick.
RayInit ==
    \E full \in SubsetsUpTo(FarRegion, MaxFull) :
        /\ IdleServer(MaxPicks)
        /\ world_blocks = [b \in full |-> GroundBlock]
        /\ pick = None
        /\ aabb = None
        /\ light_levels = <<>>
        /\ velocity = None
        /\ yaw_pitch = None
        /\ call = None
        /\ renderer = None

\* A call of get_pointed_at(dir, 10.0, world) on a player at player_pos;
\* pick keeps the camera, the direction, what is returned and how many
\* times the loop has run.
GetPointedAt(player_pos, dir) ==
    LET camera == get_camera_position(player_pos)
    IN /\ events < MaxEvents
       /\ events' = events + 1
       /\ pick' = Some([camera |-> camera, dir |-> dir,
                        pointed |->
                          get_pointed_at(player_pos, dir, world_blocks),
                        iterations |->
                          IF is_block_full(world_blocks, BlockPosFrom(camera))
                          THEN 1
                          ELSE ray_iterations(camera, dir, MaxPickDist(dir),
                                              world_blocks)])
       /\ UNCHANGED <<pc, players, physics_players, chunks, light,
                      generating_chunks, updated_chunks,
                      chunk_lighting_updates, updated_light_chunks,
                      worldgen_worker, light_worker, sent, first_sent,
                      handshakes, last_chunk, held, discarded, lost,
                      edits_received, highest_opaque_block, world_blocks,
                      aabb, light_levels, velocity, yaw_pitch, call,
                      renderer>>

RayNext ==
    \E player_pos \in FarPositions, dir \in Directions :
        GetPointedAt(player_pos, dir)

RaySpec == RayInit /\ [][RayNext]_vars

\* Where the ray enters and leaves the span from lo to hi on one axis:
\* the lengths on that axis, for a ray from c that moves by d on it.
span_enter(c, d, lo, hi) ==
    IF d > 0 THEN lo - c ELSE IF d < 0 THEN c - hi ELSE 0
span_leave(c, d, lo, hi) ==
    IF d > 0 THEN hi - c ELSE IF d < 0 THEN c - lo ELSE 0

Max3(a, b, c) == IF a >= b /\ a >= c THEN a ELSE IF b >= c THEN b ELSE c
Min3(a, b, c) == IF a <= b /\ a <= c THEN a ELSE IF b <= c THEN b ELSE c

\* The length on each axis at which the ray from camera along dir enters
\* the cube of block, 0 for a camera in the cube; -1 if the ray misses
\* the cube.
entry_length(camera, dir, block) ==
    LET enter == Max3(IF dir.x = 0 THEN 0
                      ELSE span_enter(camera.x, dir.x, block.px * UNIT,
                                      (block.px + 1) * UNIT),
                      IF dir.y = 0 THEN 0
                      ELSE span_enter(camera.y, dir.y, block.py * UNIT,
                                      (block.py + 1) * UNIT),
                      IF dir.z = 0 THEN 0
                      ELSE span_enter(camera.z, dir.z, block.pz * UNIT,
                                      (block.pz + 1) * UNIT))
        leave == Min3(IF dir.x = 0 THEN 100 * UNIT
                      ELSE span_leave(camera.x, dir.x, block.px * UNIT,
                                      (block.px + 1) * UNIT),
                      IF dir.y = 0 THEN 100 * UNIT
                      ELSE span_leave(camera.y, dir.y, block.py * UNIT,
                                      (block.py + 1) * UNIT),
                      IF dir.z = 0 THEN 100 * UNIT
                      ELSE span_leave(camera.z, dir.z, block.pz * UNIT,
                                      (block.pz + 1) * UNIT))
        beside(c, d, b) == d = 0 /\ (c < b * UNIT \/ c > (b + 1) * UNIT)
        from == IF enter < 0 THEN 0 ELSE enter
    IN IF \/ beside(camera.x, dir.x, block.px)
          \/ beside(camera.y, dir.y, block.py)
          \/ beside(camera.z, dir.z, block.pz)
          \/ from > leave
       THEN -1 ELSE from

\* C24: get_pointed_at returns after a number of turns of its loop that
\* max_dist bounds, for every direction, those along an axis included;
\* the block it returns is opaque and the ray enters it within 10 blocks
\* of the camera, and it returns None when no opaque block is on the ray
\* within that distance.
PickTerminatesInReach ==
    \A p \in pick :
        /\ p.iterations >= 1
        /\ (p.iterations - 1) * Epsilon(p.dir) <= MaxPickDist(p.dir)
        /\ \A hit \in p.pointed :
             LET enter == entry_length(p.camera, p.dir, hit.block)
             IN /\ is_block_full(world_blocks, hit.block)
                /\ enter >= 0
                /\ NonZero(p.dir) * (enter \div 1000) * (enter \div 1000)
                      <= 10000 * 10000
        /\ (\A b \in DOMAIN world_blocks :
              world_blocks[b] # 0 =>
                 LET enter == entry_length(p.camera, p.dir, b)
                 IN \/ enter < 0
                    \/ NonZero(p.dir) * (enter \div 1000) * (enter \div 1000)
                          > 10000 * 10000)
             => p.pointed = None

\* A pick along the x axis has gone through ten blocks and returned None,
\* the only full block on the ray being out of reach.
OutOfReach ==
    \E p \in pick :
        /\ p.pointed = None
        /\ NonZero(p.dir) = 1
        /\ p.iterations >= 10
        /\ \E b \in DOMAIN world_blocks :
             /\ world_blocks[b] # 0
             /\ entry_length(p.camera, p.dir, b) > 10 * UNIT


\* ------------------------------------------------- edits that do nothing
\* PhysicsPlayer { aabb: AABB { pos: player_pos, size 0 } }: the box the
\* server makes of the player_pos of a BreakBlock or PlaceBlock.
point_box(player_pos) == [mins |-> player_pos, maxs |-> player_pos]

\* The positions the edits examined are sent from: the camera in the layer
\* of y = 61.
EditPositions == {pos \in PlayerPositions : pos.y = 60 * UNIT}

\* A server whose world is the spawn chunk, with any blocks of the region
\* full, and a connected player about to send a block edit.
EditInit ==
    \E full \in SubsetsUpTo(Region, MaxFull), pos \in EditPositions,
       id \in {1} :
        /\ world_blocks = [b \in full |-> GroundBlock]
        /\ aabb = Some(point_box(pos))
        /\ pick = None
        /\ light_levels = <<>>
        /\ velocity = None
        /\ yaw_pitch = None
        /\ call = None
        /\ renderer = None
        /\ chunks = [p \in {SpawnChunk} |-> 0]
        /\ highest_opaque_block = {ChunkPosXZ(SpawnChunk)}
        /\ events = MaxEvents - MaxPicks
        /\ pc = "events"
        /\ players = [i \in {id} |-> DefaultPlayerData]
        /\ physics_players = [i \in {id} |-> SpawnChunk]
        /\ light = {SpawnChunk}
        /\ generating_chunks = {}
        /\ updated_chunks = {}
        /\ chunk_lighting_updates = {}
        /\ updated_light_chunks = {}
        /\ worldgen_worker = NewWorker
        /\ light_worker = NewWorker
        /\ sent = [i \in PlayerIds |-> <<>>]
        /\ first_sent = [i \in PlayerIds |-> <<>>]
        /\ handshakes = [i \in PlayerIds |-> [GameData |-> 0, CurrentId |-> 0]]
        /\ last_chunk = [i \in PlayerIds |-> <<>>]
        /\ held = [i \in PlayerIds |-> {}]
        /\ discarded = {}
        /\ lost = {}
        /\ edits_received = {}

EditNext ==
    \E dir \in Directions :
        \/ BreakBlockAt(dir)
        \/ \E box \in aabb : PlaceBlockAt(position(box), dir)

EditSpec == EditInit /\ [][EditNext]_vars

\* Whether block b is one of the blocks of the chunk at c.
in_chunk(b, c) ==
    /\ c.px * CHUNK_SIZE <= b.px /\ b.px < (c.px + 1) * CHUNK_SIZE
    /\ c.py * CHUNK_SIZE <= b.py /\ b.py < (c.py + 1) * CHUNK_SIZE
    /\ c.pz * CHUNK_SIZE <= b.pz /\ b.pz < (c.pz + 1) * CHUNK_SIZE

\* C26: a PlaceBlock whose pick hits nothing, or whose target voxel is in
\* no loaded chunk, and a BreakBlock whose pick hits nothing, leave the
\* blocks, world.chunks, updated_chunks, the pending lighting and the
\* PlayerData of every player as they are, and send nothing.
IdleEditChangesNothing ==
    [][\A p \in pick' :
         (/\ events' = events + 1
          /\ \/ p.pointed = None
             \/ /\ p.op = "PlaceBlock"
                /\ \A hit \in p.pointed : \A c \in DOMAIN chunks :
                     ~in_chunk(offset_by(hit.block, D, hit.face), c)) =>
            UNCHANGED <<world_blocks, chunks, updated_chunks,
                        chunk_lighting_updates, players, sent, last_chunk,
                        held, highest_opaque_block, light,
                        updated_light_chunks, edits_received>>]_vars

\* A PlaceBlock has hit a block, the voxel to set is in a chunk that is not
\* loaded, and nothing is updated.
PlacedOutsideWorld ==
    \E p \in pick : \E hit \in p.pointed :
        /\ p.op = "PlaceBlock"
        /\ p.block = None
        /\ offset_by(hit.block, D, hit.face).px < 0
        /\ updated_chunks = {}
        /\ chunk_lighting_updates = {}

\* ------------------------------------------------- the state a tick leaves
\* The steps of tick() that come after "Send light updates", the last of
\* which leaves the state the tick ends with.
AfterDispatch == {"physics", "stream", "drop", "start"}

\* C36: once the dispatch step of a tick has run, and so at the end of every
\* tick, chunk_lighting_updates is empty: no lighting request is carried
\* over to a later tick.
PendingLightingDrained ==
    pc \in AfterDispatch => chunk_lighting_updates = {}

\* A tick has ended in which save_chunk ran and a lighting task was
\* dispatched to the worker.
DispatchedSameTick ==
    /\ pc = "start"
    /\ updated_chunks # {}
    /\ light_worker.queue # {}
    /\ chunk_lighting_updates = {}

\* C37: at the end of every tick the loaded_chunks of each player hold only
\* keys of world.chunks.
LoadedChunksInWorld ==
    pc = "start" =>
        \A i \in DOMAIN players : players[i].loaded_chunks \subseteq DOMAIN chunks

\* A tick has ended with a chunk that was saved in the world (its column has
\* a summary) evicted from it, while a player holds other chunks.
HolderOutlivesDrop ==
    /\ pc = "start"
    /\ \E i \in DOMAIN players : players[i].loaded_chunks # {}
    /\ \E p \in Positions :
         /\ ChunkPosXZ(p) \in highest_opaque_block
         /\ p \notin DOMAIN chunks

\* C39: a standalone LightChunk for a position was sent to a player in this
\* tick only if, at the end of the tick, the Chunk of that position is in
\* world.chunks and the position is in the player's loaded_chunks.
LightSentWithChunk ==
    pc = "start" =>
        \A i \in DOMAIN players : \A k \in 1..Len(sent[i]) :
            sent[i][k].type = "LightChunk" =>
                /\ sent[i][k].pos \in DOMAIN chunks
                /\ sent[i][k].pos \in players[i].loaded_chunks

\* --------------------------------------------------------- the block placed
\* World::get_block: the id of the block at that position, air where the
\* world holds nothing.
get_block(world, block) == IF block \in DOMAIN world THEN world[block] ELSE 0

\* The assignment of SelectBlock made whatever the pick returns: air on a
\* miss.
block_selected_or_air(old, pointed, world) ==
    IF pointed = None THEN 0
    ELSE get_block(world, (CHOOSE hit \in pointed : TRUE).block)

\* block_to_place after a SelectBlock whose pick returned pointed: the id of
\* the block hit, or what it was.
block_selected(old, pointed, world) ==
    IF pointed = None THEN old
    ELSE get_block(world, (CHOOSE hit \in pointed : TRUE).block)

\* ToServer::SelectBlock(player_pos, yaw, pitch) from player id at the level
\* of voxels, dir being the look direction of yaw and pitch.
SelectBlockAt(id, dir) ==
    \E box \in aabb :
        LET pointed == get_pointed_at(position(box), dir, world_blocks)
        IN /\ events < MaxEvents
           /\ events' = events + 1
           /\ players' =
                [players EXCEPT ![id].block_to_place =
                    block_selected(@, pointed, world_blocks)]
           /\ pick' = Some([op |-> "SelectBlock", pointed |-> pointed,
                            block |-> None, before |-> None,
                            was_full |-> FALSE])
           /\ UNCHANGED <<world_blocks, chunks, updated_chunks,
                          chunk_lighting_updates, highest_opaque_block,
                          pc, physics_players, light,
                          generating_chunks, updated_light_chunks,
                          worldgen_worker, light_worker, sent, first_sent,
                          handshakes, last_chunk, held, discarded, lost,
                          edits_received, aabb, light_levels, velocity,
                          yaw_pitch, call,
                          renderer>>

\* The voxels examined for a selection: the blocks of x = 0..1, z = 0.
SelectRegion == {b \in Region : b.pz = 0}

\* How many messages a player sends.
MaxSelects == 2

\* A server whose world is the spawn chunk, with any blocks of the region
\* full, and a connected player that has selected nothing.
SelectInit ==
    \E full \in SubsetsUpTo(SelectRegion, MaxFull), id \in {1} :
        /\ world_blocks = [b \in full |-> GroundBlock]
        /\ aabb = Some(point_box([x |-> UNIT \div 2, y |-> 60 * UNIT,
                                  z |-> UNIT \div 2]))
        /\ pick = None
        /\ light_levels = <<>>
        /\ velocity = None
        /\ yaw_pitch = None
        /\ call = None
        /\ renderer = None
        /\ chunks = [p \in {SpawnChunk} |-> 0]
        /\ highest_opaque_block = {ChunkPosXZ(SpawnChunk)}
        /\ events = MaxEvents - MaxSelects
        /\ pc = "events"
        /\ players = [i \in {id} |-> DefaultPlayerData]
        /\ physics_players = [i \in {id} |-> SpawnChunk]
        /\ light = {SpawnChunk}
        /\ generating_chunks = {}
        /\ updated_chunks = {}
        /\ chunk_lighting_updates = {}
        /\ updated_light_chunks = {}
        /\ worldgen_worker = NewWorker
        /\ light_worker = NewWorker
        /\ sent = [i \in PlayerIds |-> <<>>]
        /\ first_sent = [i \in PlayerIds |-> <<>>]
        /\ handshakes = [i \in PlayerIds |-> [GameData |-> 0, CurrentId |-> 0]]
        /\ last_chunk = [i \in PlayerIds |-> <<>>]
        /\ held = [i \in PlayerIds |-> {}]
        /\ discarded = {}
        /\ lost = {}
        /\ edits_received = {}

SelectNext ==
    \E dir \in Directions, id \in DOMAIN players :
        \/ SelectBlockAt(id, dir)
        \/ BreakBlockAt(dir)
        \/ \E box \in aabb :
             PlaceBlockOf(position(box), dir, players[id].block_to_place)

SelectSpec == SelectInit /\ [][SelectNext]_vars

\* C38: the block_to_place of every player is never air, and the voxel a
\* PlaceBlock has set does not hold air.
NeverPlacesAir ==
    /\ \A i \in DOMAIN players : players[i].block_to_place # 0
    /\ \A p \in pick : p.op = "PlaceBlock" =>
         \A b \in p.block : get_block(world_blocks, b) # 0

\* A player has placed a block of the id it had selected before.
PlacedSelected ==
    \E p \in pick : \E b \in p.block : \E i \in DOMAIN players :
        /\ p.op = "PlaceBlock"
        /\ players[i].block_to_place = GroundBlock
        /\ world_blocks[b] = GroundBlock

\* ------------------------------------------- a pick from inside a full block
\* A world where the block of the camera, (0, 61, 0), is full, with any
\* other blocks of the region, before a pick.
InsideInit ==
    \E full \in SubsetsUpTo(Region, MaxFull) :
        /\ BlockPos(0, 61, 0) \in full
        /\ IdleServer(MaxPicks)
        /\ world_blocks = [b \in full |-> GroundBlock]
        /\ pick = None
        /\ aabb = None
        /\ light_levels = <<>>
        /\ velocity = None
        /\ yaw_pitch = None
        /\ call = None
        /\ renderer = None

InsideNext ==
    \E player_pos \in FarPositions, dir \in Directions :
        GetPointedAt(player_pos, dir)

InsideSpec == InsideInit /\ [][InsideNext]_vars

\* How far the ray goes from pos, on the axis of index i, before it leaves
\* the block of pos through the side of that index: a block holds the
\* coordinates from its lower side up to its upper side, the upper side
\* left out.
exit_length(pos, i) ==
    LET low == Floor(coordinate(pos, i))
    IN IF i % 2 = 0 THEN coordinate(pos, i) - low
       ELSE low + UNIT - coordinate(pos, i)

\* C31: from a camera inside a full block get_pointed_at returns that block
\* in its first iteration, with the face opposite to the side through which
\* the ray leaves the block first.
InsideReturnsExitFace ==
    \A p \in pick :
        is_block_full(world_blocks, BlockPosFrom(p.camera)) =>
            /\ p.iterations = 1
            /\ \E hit \in p.pointed :
                 /\ hit.block = BlockPosFrom(p.camera)
                 /\ effective_movement(p.dir, Xor1(hit.face))
                 /\ \A j \in 0..5 :
                      effective_movement(p.dir, j) =>
                          exit_length(p.camera, Xor1(hit.face))
                              <= exit_length(p.camera, j)

\* ------------------------------------------------ a tick around the player
\* The end of a tick: a world with any blocks of the region full and a
\* player at rest that intersects none of them.
StepInit ==
    \E full \in SubsetsUpTo(CameraRegion, MaxFull),
       pos \in StandingPositions :
        /\ IdleServer(MaxPicks + MaxSteps)
        /\ world_blocks = [b \in full |-> GroundBlock]
        /\ aabb = Some(player_box(pos))
        /\ ~aabb_intersects_world(world_blocks, player_box(pos))
        /\ velocity = Some(zeros)
        /\ pick = None
        /\ light_levels = <<>>
        /\ yaw_pitch = None
        /\ call = None
        /\ renderer = None

\* The next tick: the PlaceBlock messages of the player, sent from where it
\* stands, are handled in the event loop, before step_simulation moves it.
StepNext ==
    \/ /\ call = None
       /\ \E dir \in Directions : \E box \in aabb :
            PlaceBlockAt(position(box), dir)
    \/ /\ call = None
       /\ \E input \in PlayerInputs, rate \in Rates :
            DefaultCamera(input, rate)

StepSpec == StepInit /\ [][StepNext]_vars

\* C40: the box of a player that intersected no full block at the end of a
\* tick intersects none at the end of the next tick, after the edits of the
\* event loop and the physics step.
ClearStaysClear ==
    \A c \in call :
        c.op = "default_camera" =>
            \A box \in aabb : ~aabb_intersects_world(world_blocks, box)

\* ------------------------------------------------------- shared snapshots
\* world.chunks holds an Arc<Chunk> for each position. Here chunks[p] names
\* the Chunk that Arc points to (the revision), and world_blocks holds the
\* blocks of every Chunk allocated, under the pair of its position and
\* revision: what any holder of a clone of the Arc reads.
SnapVoxels == {BlockPos(0, 60, 0), BlockPos(1, 60, 0)}

\* How many steps a run has.
MaxSnaps == 4

\* An edit that writes the block through the Arc of the world, and stores
\* the Chunk it wrote.
set_in_place(heap, from, to, block, id) ==
    LET edited == Put(heap[from], block, id)
    IN Put(Put(heap, from, edited), to, edited)

\* (*self.world.get_chunk(chunk_pos).unwrap()).clone(), set_block_at on the
\* clone, and Arc::new(chunk) in save_chunk: a new Chunk is allocated with
\* the block changed, and the Chunk read is left as it is.
clone_and_set(heap, from, to, block, id) ==
    Put(heap, to, Put(heap[from], block, id))

\* A server whose world is the spawn chunk with one block, and a connected
\* player; nothing was handed to the lighting worker or sent.
SnapInit ==
    /\ world_blocks = [k \in {<<SpawnChunk, 0>>} |->
                         [b \in {BlockPos(0, 60, 0)} |-> GroundBlock]]
    /\ call = {}
    /\ renderer = None
    /\ light_levels = <<>>
    /\ pick = None
    /\ aabb = None
    /\ velocity = None
    /\ yaw_pitch = None
    /\ chunks = [p \in {SpawnChunk} |-> 0]
    /\ highest_opaque_block = {ChunkPosXZ(SpawnChunk)}
    /\ events = MaxEvents - MaxSnaps
    /\ pc = "events"
    /\ players = [i \in {1} |-> DefaultPlayerData]
    /\ physics_players = [i \in {1} |-> SpawnChunk]
    /\ light = {SpawnChunk}
    /\ generating_chunks = {}
    /\ updated_chunks = {}
    /\ chunk_lighting_updates = {SpawnChunk}
    /\ updated_light_chunks = {}
    /\ worldgen_worker = NewWorker
    /\ light_worker = NewWorker
    /\ sent = [i \in PlayerIds |-> <<>>]
    /\ first_sent = [i \in PlayerIds |-> <<>>]
    /\ handshakes = [i \in PlayerIds |-> [GameData |-> 0, CurrentId |-> 0]]
    /\ last_chunk = [i \in PlayerIds |-> <<>>]
    /\ held = [i \in PlayerIds |-> {}]
    /\ discarded = {}
    /\ lost = {}
    /\ edits_received = {}

\* A PlaceBlock (id = block_to_place) or BreakBlock (id = 0) whose target
\* voxel is block, in chunk p of the world.
EditSnapshot(p, block, id) ==
    /\ events < MaxEvents
    /\ events' = events + 1
    /\ p \in DOMAIN chunks
    /\ world_blocks' = clone_and_set(world_blocks, <<p, chunks[p]>>,
                                     <<p, chunks[p] + 1>>, block, id)
    /\ \E changed \in BOOLEAN :
         save_chunk([q \in {p} |-> chunks[p] + 1], [q \in {p} |-> changed])
    /\ UNCHANGED <<pc, players, physics_players, light, generating_chunks,
                   updated_light_chunks, worldgen_worker, light_worker, sent,
                   first_sent, handshakes, last_chunk, held, discarded, lost,
                   edits_received, pick, aabb, light_levels, velocity,
                   yaw_pitch, call,
                   renderer>>

\* "Send light updates": world.get_chunk(pos) clones the Arc of each chunk
\* into the ChunkLightingData of the task, which replaces the pending task
\* of the same position. call keeps, for each clone handed over, the Chunk
\* it points to and the blocks that Chunk held then.
DispatchSnapshots ==
    LET tasks == chunk_lighting_updates \cap DOMAIN chunks
    IN /\ events < MaxEvents
       /\ events' = events + 1
       /\ tasks # {}
       /\ light_worker' = [light_worker EXCEPT !.queue = @ \cup tasks]
       /\ chunk_lighting_updates' = drain(chunk_lighting_updates)
       /\ call' = {h \in call : ~(h.to = "light_worker" /\ h.pos \in tasks)}
                     \cup {[to |-> "light_worker", pos |-> q,
                             snapshot |-> <<q, chunks[q]>>,
                             blocks |-> world_blocks[<<q, chunks[q]>>]] :
                               q \in tasks}
       /\ UNCHANGED <<pc, players, physics_players, chunks, light,
                      generating_chunks, updated_chunks, updated_light_chunks,
                      worldgen_worker, sent, first_sent, handshakes,
                      last_chunk, held, discarded, lost, edits_received,
                      highest_opaque_block, world_blocks, pick, aabb,
                      light_levels, velocity, yaw_pitch,
                      renderer>>

\* ToClient::Chunk(chunk.clone(), ..) for chunk p to player i: a clone of
\* the Arc goes to the transport.
SendSnapshot(i, p) ==
    /\ events < MaxEvents
    /\ events' = events + 1
    /\ i \in DOMAIN players
    /\ p \in DOMAIN chunks
    /\ needs_chunk(players[i], p)
    /\ send([j \in PlayerIds |->
               IF j = i THEN <<ChunkMsg(p, chunks[p])>> ELSE <<>>], {})
    /\ players' = [players EXCEPT ![i].loaded_chunks = @ \cup {p}]
    /\ call' = call \cup {[to |-> "client", pos |-> p,
                            snapshot |-> <<p, chunks[p]>>,
                            blocks |-> world_blocks[<<p, chunks[p]>>]]}
    /\ UNCHANGED <<pc, physics_players, chunks, light, generating_chunks,
                   updated_chunks, chunk_lighting_updates,
                   updated_light_chunks, worldgen_worker, light_worker,
                   last_chunk, held, discarded, lost, edits_received,
                   highest_opaque_block, world_blocks, pick, aabb,
                   light_levels, velocity, yaw_pitch,
                   renderer>>

\* The lighting thread computes the pending task of position p from the
\* Chunk its ChunkLightingData points to; light_levels keeps the blocks it
\* read and the blocks that Chunk held when the task was enqueued.
ComputeFromSnapshot(p) ==
    /\ events < MaxEvents
    /\ events' = events + 1
    /\ p \in light_worker.queue
    /\ light_worker' = [light_worker EXCEPT !.queue = @ \ {p},
                                            !.out = @ \cup {p}]
    /\ \E h \in call :
         /\ h.to = "light_worker" /\ h.pos = p
         /\ light_levels' = Put(light_levels, p,
                                [read |-> world_blocks[h.snapshot],
                                 enqueued |-> h.blocks])
    /\ UNCHANGED <<pc, players, physics_players, chunks, light,
                   generating_chunks, updated_chunks, chunk_lighting_updates,
                   updated_light_chunks, worldgen_worker, sent, first_sent,
                   handshakes, last_chunk, held, discarded, lost,
                   edits_received, highest_opaque_block, world_blocks, pick,
                   aabb, velocity, yaw_pitch, call,
                   renderer>>

SnapNext ==
    \/ \E p \in DOMAIN chunks, block \in SnapVoxels,
          id \in {0, DefaultBlockToPlace} : EditSnapshot(p, block, id)
    \/ DispatchSnapshots
    \/ \E i \in PlayerIds, p \in Positions : SendSnapshot(i, p)
    \/ \E p \in Positions : ComputeFromSnapshot(p)

SnapSpec == SnapInit /\ [][SnapNext]_vars

\* C35: the Chunk behind every Arc handed to the lighting worker or sent to
\* a client holds the blocks it held when it was handed over, whatever
\* edits have replaced the world's entry since, and a lighting task reads
\* the blocks its chunks held when it was enqueued.
SharedSnapshotsKept ==
    /\ \A h \in call : world_blocks[h.snapshot] = h.blocks
    /\ \A p \in DOMAIN light_levels :
         light_levels[p].read = light_levels[p].enqueued

\* A lighting task was computed after an edit had replaced, in the world,
\* the chunk it was enqueued with, by a chunk with other blocks.
EditedWhileInFlight ==
    \E h \in call :
        /\ h.to = "light_worker"
        /\ h.pos \in DOMAIN light_levels
        /\ h.snapshot # <<h.pos, chunks[h.pos]>>
        /\ world_blocks[<<h.pos, chunks[h.pos]>>] # h.blocks
        /\ light_levels[h.pos].read = h.blocks

\* ------------------------------------------------ the buffers of the worker
\* ChunkLightingState of a worker that has computed nothing: the three
\* buffers that compute_light reuses.
NewLightingState ==
    [queue_reuse |-> <<>>, light_data_reuse |-> [a \in LightGrid |-> 0],
     opaque_reuse |-> {}]

\* compute_light that starts on the buffers as the task before left them.
buffers_kept(state) == state

\* The start of compute_light: the queue is empty and every voxel starts
\* at 0, before the opaque blocks are read and the sunlight is seeded.
buffers_reset(state) == NewLightingState

\* compute_light on the buffers of state for the chunks of world: from the
\* levels the buffer starts with, a voxel is raised to the level the
\* propagation brings (max(current, L - 1)); the queue ends empty, and the
\* buffers keep the levels and the opaque voxels of the task.
compute_light_reusing(world, state) ==
    LET start == buffers_reset(state)
        reached == compute_light(world)
        levels == [a \in LightGrid |->
                     IF start.light_data_reuse[a] > reached[a]
                     THEN start.light_data_reuse[a] ELSE reached[a]]
    IN [light_level |-> levels,
        state |-> [queue_reuse |-> <<>>, light_data_reuse |-> levels,
                   opaque_reuse |-> {a \in LightGrid :
                                       is_block_full(world, a)}]]

\* How many tasks the worker computes.
MaxTasks == 2

\* A lighting worker that has computed nothing.
ReuseInit ==
    /\ IdleServer(MaxTasks)
    /\ light_levels = NewLightingState
    /\ world_blocks = <<>>
    /\ call = None
    /\ renderer = None
    /\ pick = None
    /\ aabb = None
    /\ velocity = None
    /\ yaw_pitch = None

\* ChunkLightingState::compute(pos, data) for a task whose chunks hold the
\* blocks of full above the ground: the LightChunk of compute_light on the
\* buffers of the state, here in light_levels. call keeps the buffers the
\* task started on, its LightChunk, and the LightChunk of the same task on
\* a state that has computed nothing.
LightingCompute(full) ==
    LET data == [b \in full \cup Ground |-> GroundBlock]
        result == compute_light_reusing(data, light_levels)
    IN /\ events < MaxEvents
       /\ events' = events + 1
       /\ world_blocks' = data
       /\ light_levels' = result.state
       /\ call' = Some([op |-> "compute", before |-> light_levels,
                        light |-> result.light_level,
                        fresh |-> compute_light_reusing(
                                    data, NewLightingState).light_level])
       /\ UNCHANGED <<pc, players, physics_players, chunks, light,
                      generating_chunks, updated_chunks,
                      chunk_lighting_updates, updated_light_chunks,
                      worldgen_worker, light_worker, sent, first_sent,
                      handshakes, last_chunk, held, discarded, lost,
                      edits_received, highest_opaque_block, pick, aabb,
                      velocity, yaw_pitch,
                      renderer>>

ReuseNext ==
    \E full \in SubsetsUpTo(LightGrid \ Ground, MaxFull) :
        LightingCompute(full)

ReuseSpec == ReuseInit /\ [][ReuseNext]_vars

RenderPositions == {ChunkPos(0, 1, 0), ChunkPos(1, 1, 0)}

\* The most visible faces a chunk has; a chunk of air has none.
MaxFaces == 1

\* How many calls and worker steps a renderer goes through.
MaxRenderSteps == 9

\* The mesh of a chunk with that many visible faces: four vertices and six
\* indices a face.
mesh_of(faces) ==
    [vertices |-> [k \in 1..(4 * faces) |-> faces],
     indices |-> [k \in 1..(6 * faces) |-> faces]]

\* WorldRenderer::new: a meshing worker with no task, two buffers with no
\* entry. queue maps the positions of the pending tasks to their inputs,
\* current holds the task the meshing thread computes, out the outputs
\* get_processed_chunks has not returned yet, in the order they were made.
NewRenderer ==
    [meshing_worker |-> [queue |-> <<>>, current |-> {}, out |-> <<>>],
     chunk_vertex_buffers |-> <<>>,
     chunk_index_buffers |-> <<>>]

\* MeshingWorker::enqueue_chunk: adds the task of a position, or replaces
\* its input.
enqueue_chunk(worker, pos, data) ==
    [worker EXCEPT !.queue = Put(worker.queue, pos, data)]

\* MeshingWorker::dequeue_chunk: cancels the pending task of a position; a
\* task in progress runs to completion.
dequeue_chunk(worker, pos) ==
    [worker EXCEPT !.queue = Restrict(worker.queue,
                                      DOMAIN worker.queue \ {pos})]

\* MultiBuffer::remove
buffer_remove(buffer, pos) == Restrict(buffer, DOMAIN buffer \ {pos})

\* The loop of render over the outputs of the meshing worker: an output
\* with vertices and indices is written into the two buffers.
RECURSIVE store_outputs(_, _)
store_outputs(r, outs) ==
    IF outs = <<>> THEN r
    ELSE LET o == Head(outs)
             stored ==
                 IF Len(o.vertices) > 0 /\ Len(o.indices) > 0
                 THEN [r EXCEPT
                         !.chunk_vertex_buffers =
                             Put(r.chunk_vertex_buffers, o.pos, o.vertices),
                         !.chunk_index_buffers =
                             Put(r.chunk_index_buffers, o.pos, o.indices)]
                 ELSE r
         IN store_outputs(stored, Tail(outs))

\* The most recent output of each position among outs.
most_recent(outs) ==
    [p \in {outs[k].pos : k \in DOMAIN outs} |->
        LET last == CHOOSE k \in DOMAIN outs :
                        /\ outs[k].pos = p
                        /\ \A j \in DOMAIN outs : outs[j].pos = p => j <= k
        IN outs[last]]

\* A renderer just made. Beside the renderer, the variable keeps what the
\* properties speak of: the last call, the positions removed and not
\* updated since, the outputs the last frame drained, the chunks it drew.
RenderInit ==
    /\ IdleServer(0)
    /\ renderer = Some([r |-> NewRenderer, op |-> "new", steps |-> 0,
                        removed |-> {}, drained |-> <<>>, drawn |-> {}])
    /\ world_blocks = <<>>
    /\ light_levels = <<>>
    /\ call = None
    /\ pick = None
    /\ aabb = None
    /\ velocity = None
    /\ yaw_pitch = None

\* The calls of the renderer and the steps of its meshing thread leave the
\* server and the voxels alone.
RendererOnly ==
    UNCHANGED <<pc, players, physics_players, chunks, light,
                generating_chunks, updated_chunks, chunk_lighting_updates,
                updated_light_chunks, worldgen_worker, light_worker, sent,
                first_sent, handshakes, last_chunk, held, discarded, lost,
                events, edits_received, highest_opaque_block, world_blocks,
                pick, aabb, light_levels, velocity, yaw_pitch, call>>

\* WorldRenderer::update_chunk(world, pos), for a chunk that shows that
\* many faces.
UpdateChunk(pos, faces) ==
    \E c \in renderer :
        /\ c.steps < MaxRenderSteps
        /\ renderer' = Some([c EXCEPT
               !.r.meshing_worker = enqueue_chunk(@, pos, faces),
               !.op = "update_chunk",
               !.steps = @ + 1,
               !.removed = @ \ {pos}])
        /\ RendererOnly

\* WorldRenderer::remove_chunk(pos)
RemoveChunk(pos) ==
    \E c \in renderer :
        /\ c.steps < MaxRenderSteps
        /\ renderer' = Some([c EXCEPT
               !.r.meshing_worker = dequeue_chunk(@, pos),
               !.r.chunk_vertex_buffers = buffer_remove(@, pos),
               !.r.chunk_index_buffers = buffer_remove(@, pos),
               !.op = "remove_chunk",
               !.steps = @ + 1,
               !.removed = @ \cup {pos}])
        /\ RendererOnly

\* The meshing thread takes a pending task.
MeshTake(pos) ==
    \E c \in renderer :
        /\ c.steps < MaxRenderSteps
        /\ c.r.meshing_worker.current = {}
        /\ pos \in DOMAIN c.r.meshing_worker.queue
        /\ renderer' = Some([c EXCEPT
               !.r.meshing_worker =
                   [dequeue_chunk(@, pos) EXCEPT
                      !.current = {[pos |-> pos,
                                    data |-> c.r.meshing_worker.queue[pos]]}],
               !.op = "take",
               !.steps = @ + 1])
        /\ RendererOnly

\* The meshing thread ends its task: the mesh joins the outputs.
MeshFinish ==
    \E c \in renderer : \E task \in c.r.meshing_worker.current :
        /\ c.steps < MaxRenderSteps
        /\ renderer' = Some([c EXCEPT
               !.r.meshing_worker =
                   [current |-> {},
                    queue |-> @.queue,
                    out |-> Append(@.out,
                                [pos |-> task.pos,
                                 vertices |-> mesh_of(task.data).vertices,
                                 indices |-> mesh_of(task.data).indices])],
               !.op = "finish",
               !.steps = @ + 1])
        /\ RendererOnly

\* WorldRenderer::render with the chunks of visible inside the frustum:
\* the outputs of the meshing worker are drained and stored, then every
\* chunk of the index buffer is drawn unless culling leaves it out.
Render(enable_culling, visible) ==
    \E c \in renderer :
        LET outs == c.r.meshing_worker.out
            emptied == [c.r EXCEPT !.meshing_worker.out = <<>>]
            after == store_outputs(emptied, outs)
        IN /\ c.steps < MaxRenderSteps
           /\ renderer' = Some([c EXCEPT
                  !.r = after,
                  !.op = "render",
                  !.steps = @ + 1,
                  !.drained = most_recent(outs),
                  !.drawn = {p \in DOMAIN after.chunk_index_buffers :
                                ~enable_culling \/ p \in visible}])
           /\ RendererOnly

RenderNext ==
    \/ \E pos \in RenderPositions, faces \in 0..MaxFaces :
           UpdateChunk(pos, faces)
    \/ \E pos \in RenderPositions : RemoveChunk(pos)
    \/ \E pos \in RenderPositions : MeshTake(pos)
    \/ MeshFinish
    \/ \E enable_culling \in BOOLEAN, visible \in SUBSET RenderPositions :
           Render(enable_culling, visible)

RenderSpec == RenderInit /\ [][RenderNext]_vars

\* What a buffer holds for a position: nothing when it has no entry.
held_data(buffer, pos) == IF pos \in DOMAIN buffer THEN buffer[pos] ELSE <<>>

\* C32: after the drain of a frame, for every position an output was
\* drained for, the vertex buffer and the index buffer hold the most recent
\* such output, an empty mesh included.
DrainedMeshesStored ==
    \A c \in renderer :
        c.op = "render" =>
            \A p \in DOMAIN c.drained :
                /\ held_data(c.r.chunk_vertex_buffers, p)
                       = c.drained[p].vertices
                /\ held_data(c.r.chunk_index_buffers, p)
                       = c.drained[p].indices

\* C33: a position removed and not updated since has no entry in either
\* buffer, and no frame draws it.
RemovedNotDrawn ==
    \A c \in renderer : \A p \in c.removed :
        /\ p \notin DOMAIN c.r.chunk_vertex_buffers
        /\ p \notin DOMAIN c.r.chunk_index_buffers
        /\ c.op = "render" => p \notin c.drawn

====
